---- MODULE Spec2Model ----
(***************************************************************************)
(* FastMap: an open-addressing hash map whose records live in one growable *)
(* arena.  Record layout: [4-byte length | value block | key offset block  *)
(* | key data block].  Addresses are absolute (arena base + offset); the   *)
(* directory stores arena-relative offsets.                                *)
(***************************************************************************)
EXTENDS Integers, Sequences, FiniteSets, TLC

VARIABLES
    st,        \* "none" before construction, "open" after it, "failed" when the constructor threw
    args,      \* the arguments of the last constructor call
    map,       \* the fields of the FastMap object, its Key, its value views, its record and cursor
    exc,       \* the exception thrown by the last operation, "none" when it returned
    ret,       \* what the last createValue / findValue returned: "value", "null" or "none"
    last,      \* the operation the caller called last
    cur,       \* the field values the caller has put into the key built last
    hist,      \* caller-side history used to state the properties
    rd         \* the lookups of the threads that read the map together

vars == <<st, args, map, exc, ret, last, cur, hist, rd>>

(***************************************************************************)
(* Bounds of the model                                                     *)
(***************************************************************************)
MaxCreates == 3       \* records created since construction
MaxAdds == 2          \* value-view accumulations since construction
MaxResets == 1        \* calls of clear / restoreInitialCapacity since construction
MaxFill == 129        \* lookups of new keys of a caller that fills the directory

(***************************************************************************)
(* Program constants                                                       *)
(***************************************************************************)
MIN_INITIAL_CAPACITY == 128
NULL_LEN == -1
Integer_MAX_VALUE == 2147483647

(***************************************************************************)
(* Inputs                                                                  *)
(***************************************************************************)
\* the null CharSequence / BinarySequence (no char or byte is negative)
NullStr == <<-1>>
\* load factors as fractions <<numerator, denominator>>
LoadFactors == { <<0, 1>>, <<1, 1>>, <<1, 64>> }
PageSizes == { 3, 8, 49 }
KeyCapacities == { 1 }
MaxResizesSet == { 1 }
HashFunctions == { "zero", "sum" }
ValueTypeLists == { <<"INT">>, <<"INT", "STRING">> }
KeyTypes == <<"INT", "STRING">>
IntValues == { -2 }
StrValues == { NullStr, <<>>, <<97>> }
GroupNames == { <<>>, <<97>> }
AddValues == { 5, 7 }
\* a CharSequence / BinarySequence of n elements, too long to be written out;
\* each of its elements is LongElement
LongSeq(n) == <<-2, n>>
LongElement == 97
isLong(value) == Len(value) = 2 /\ value[1] = -2
\* value.length()
length(value) == IF isLong(value) THEN value[2] ELSE Len(value)
\* addresses malloc / realloc may return
Base0 == 4096
Bases == { Base0, 2 * Base0 }
\* what a read of an int from memory that was never written may give
GarbageInts == { 0, -1515870811 }

(***************************************************************************)
(* Bytes                                                                   *)
(***************************************************************************)
\* little-endian two's complement encoding of a 4-byte int
intBytes(v) ==
    [i \in 1..4 |-> (v \div (256 ^ (i - 1))) % 256]

\* decoding of 4 little-endian bytes as a signed int
bytesInt(bs) ==
    bs[1] + 256 * bs[2] + 65536 * bs[3]
      + 16777216 * (IF bs[4] >= 128 THEN bs[4] - 256 ELSE bs[4])

\* little-endian encoding of a 2-byte char
charBytes(c) == <<c % 256, (c \div 256) % 256>>

bytesChar(bs) == bs[1] + 256 * bs[2]

RECURSIVE strBytes(_)
strBytes(s) ==
    IF s = <<>> THEN <<>> ELSE charBytes(Head(s)) \o strBytes(Tail(s))

RECURSIVE ceilPow2From(_, _)
ceilPow2From(p, v) == IF p >= v THEN p ELSE ceilPow2From(2 * p, v)

\* Numbers.ceilPow2: the smallest power of two that is >= v
ceilPow2(v) == ceilPow2From(1, v)

\* (int) (a / (n/d)) and (int) (a * (n/d)) for non-negative a
divByFactor(a, lf) == (a * lf[2]) \div lf[1]
mulByFactor(a, lf) == (a * lf[1]) \div lf[2]

(***************************************************************************)
(* Arena memory: mem[o] is the byte at address kStart + o, Uninit while the *)
(* byte has not been written since its allocation                          *)
(***************************************************************************)
Uninit == -1

\* a byte outside the arena is not the map's: it reads as never written
getByte(m, address) ==
    IF address >= m.kStart /\ address < m.kStart + m.capacity
       /\ m.kStart # 0
    THEN m.mem[address - m.kStart] ELSE Uninit

getBytes(m, address, n) == [i \in 1..n |-> getByte(m, address + i - 1)]

\* Unsafe writes of the bytes bs from address on: the bytes inside the arena
\* land in mem; overrun records that a byte went outside it
putBytes(m, address, bs) ==
    LET o0 == address - m.kStart
    IN [m EXCEPT !.mem = [o \in DOMAIN m.mem |->
                            IF o >= o0 /\ o < o0 + Len(bs) THEN bs[o - o0 + 1]
                            ELSE m.mem[o]],
                 !.overrun = @ \/ (Len(bs) > 0 /\ (o0 < 0 \/ o0 + Len(bs) > m.capacity))]

\* the loop of putChar over the chars of value from address on; of a long
\* sequence the chars inside the arena are written out
putChars(m, address, value) ==
    IF isLong(value)
    THEN LET room == IF m.kLimit > address THEN m.kLimit - address ELSE 0
             past == value[2] > room \div 2
             n == IF past THEN room ELSE 2 * value[2]
         IN [putBytes(m, address,
                      [i \in 1..n |-> IF i % 2 = 1 THEN LongElement ELSE 0])
               EXCEPT !.overrun = @ \/ past]
    ELSE putBytes(m, address, strBytes(value))

UnsafeGetInt(m, address) == bytesInt(getBytes(m, address, 4))

UnsafePutInt(m, address, v) == putBytes(m, address, intBytes(v))

inArena(m, address, n) == address >= m.kStart /\ address + n <= m.kLimit

(***************************************************************************)
(* Construction                                                            *)
(***************************************************************************)
\* width of a value column, 0 for a type the constructor's switch rejects
valueWidth(t) ==
    CASE t \in {"BYTE", "BOOLEAN", "GEOBYTE"} -> 1
      [] t \in {"SHORT", "CHAR", "GEOSHORT"} -> 2
      [] t \in {"INT", "FLOAT", "SYMBOL", "GEOINT"} -> 4
      [] t \in {"LONG", "DOUBLE", "DATE", "TIMESTAMP", "GEOLONG"} -> 8
      [] t = "LONG256" -> 32
      [] OTHER -> 0

RECURSIVE valueOffsetsOf(_, _)
\* the loop that assigns valueOffsets[i] = offset and advances offset
valueOffsetsOf(types, offset) ==
    IF types = <<>> THEN <<>>
    ELSE <<offset>> \o valueOffsetsOf(Tail(types), offset + valueWidth(Head(types)))

RECURSIVE valueBlockEnd(_, _)
valueBlockEnd(types, offset) ==
    IF types = <<>> THEN offset
    ELSE valueBlockEnd(Tail(types), offset + valueWidth(Head(types)))

unsupportedValueType(types) == \E i \in DOMAIN types : valueWidth(types[i]) = 0

emptyMem == [o \in {} |-> 0]
freshMem(n) == [o \in 0..(n - 1) |-> Uninit]
\* The directory holds keyCapacity slots; offsets maps the non-empty slots to
\* their arena offsets and every other slot holds -1.
zeroed(n) == [i \in {} |-> -1]

offsetsGet(m, index) == IF index \in DOMAIN m.offsets THEN m.offsets[index] ELSE -1

offsetsSet(offsets, index, offset) ==
    [i \in DOMAIN offsets \cup {index} |-> IF i = index THEN offset ELSE offsets[i]]

minOf(S) == CHOOSE x \in S : \A y \in S : x <= y

noView == [address |-> 0, isNew |-> FALSE]
noKey == [startAddress |-> 0, appendAddress |-> 0, len |-> 0, nextColOffset |-> 0]
noRecord == [address0 |-> 0, address1 |-> 0, address2 |-> 0]
noCursor == [state |-> "Idle", address |-> 0, remaining |-> 0, index |-> 0]

\* the object before its constructor has run: nothing allocated
noMap ==
    [loadFactor |-> <<0, 1>>, initialKeyCapacity |-> 0, initialPageSize |-> 0,
     maxResizes |-> 0, hashFunction |-> "zero", keyTypes |-> <<>>,
     valueColumnCount |-> 0, valueOffsets |-> <<>>,
     keyBlockOffset |-> 0, keyDataOffset |-> 0,
     kStart |-> 0, kLimit |-> 0, kPos |-> 0, capacity |-> 0, mem |-> emptyMem,
     keyCapacity |-> 0, mask |-> 0, free |-> 0, offsets |-> zeroed(0),
     offsetsOpen |-> FALSE, offsetsPos |-> 0, size |-> 0, nResizes |-> 0,
     overrun |-> FALSE,
     key |-> noKey, value |-> noView, value2 |-> noView, value3 |-> noView,
     record |-> noRecord, cursor |-> noCursor]

\* an initial directory capacity without the minimum
initialCapacityNoMinimum(keyCapacity, loadFactor) ==
    ceilPow2(divByFactor(keyCapacity, loadFactor))

\* initial directory capacity: (int) (keyCapacity / loadFactor), at least
\* MIN_INITIAL_CAPACITY, else rounded up to a power of two
initialCapacity(keyCapacity, loadFactor) ==
    LET c == divByFactor(keyCapacity, loadFactor)
    IN IF c < MIN_INITIAL_CAPACITY THEN MIN_INITIAL_CAPACITY ELSE ceilPow2(c)

\* a close that releases the directory and keeps the arena
closeKeepsArena(m) ==
    [m EXCEPT !.offsets = zeroed(0), !.offsetsOpen = FALSE]

\* close(): releases the directory and the arena
close(m) ==
    [m EXCEPT !.offsets = zeroed(0), !.offsetsOpen = FALSE, !.offsetsPos = 0,
              !.mem = IF m.kStart # 0 THEN emptyMem ELSE @,
              !.kStart = 0]

\* the constructor up to the value-offsets loop: allocation of arena and directory
allocated(a, kAddress) ==
    LET kc == initialCapacity(a.keyCapacity, a.loadFactor)
    IN [noMap EXCEPT
          !.initialKeyCapacity = a.keyCapacity,
          !.initialPageSize = a.pageSize,
          !.loadFactor = a.loadFactor,
          !.kStart = kAddress, !.kPos = kAddress, !.capacity = a.pageSize,
          !.mem = freshMem(a.pageSize),
          !.kLimit = kAddress + a.pageSize,
          !.keyCapacity = kc,
          !.mask = kc - 1,
          !.free = mulByFactor(kc, a.loadFactor),
          !.offsets = zeroed(kc), !.offsetsOpen = TRUE, !.offsetsPos = kc,
          !.hashFunction = a.hashFunction,
          !.nResizes = 0,
          !.maxResizes = a.maxResizes,
          !.keyTypes = a.keyTypes]

\* a load factor that takes every value up to 1 for valid
loadFactorUpToOne(loadFactor) == loadFactor[1] > 0 /\ loadFactor[1] <= loadFactor[2]

\* assert loadFactor > 0 && loadFactor < 1d
loadFactorOk(loadFactor) == loadFactor[1] > 0 /\ loadFactor[1] < loadFactor[2]

\* the constructor; returns the object state and the exception thrown, if any
FastMap(a, kAddress) ==
    IF ~(a.pageSize > 3) \/ ~loadFactorOk(a.loadFactor)
    THEN [map |-> noMap, exc |-> "AssertionError"]
    ELSE
      LET m0 == allocated(a, kAddress)
          kbo == valueBlockEnd(a.valueTypes, 4)
          m1 == [m0 EXCEPT
                   !.valueColumnCount = Len(a.valueTypes),
                   !.valueOffsets = valueOffsetsOf(a.valueTypes, 4),
                   !.keyBlockOffset = kbo,
                   !.keyDataOffset = kbo + 4 * Len(a.keyTypes)]
      IN IF unsupportedValueType(a.valueTypes)
         THEN [map |-> close(m0), exc |-> "CairoException"]
         ELSE IF ~(m1.keyBlockOffset < m1.kLimit - m1.kStart)
         THEN [map |-> m1, exc |-> "AssertionError"]
         ELSE [map |-> m1, exc |-> "none"]

ConstructorArgs ==
    [pageSize : PageSizes, keyTypes : {KeyTypes}, valueTypes : ValueTypeLists,
     keyCapacity : KeyCapacities, loadFactor : LoadFactors,
     hashFunction : HashFunctions, maxResizes : MaxResizesSet]

noArgs ==
    [pageSize |-> 0, keyTypes |-> <<>>, valueTypes |-> <<>>, keyCapacity |-> 0,
     loadFactor |-> <<0, 1>>, hashFunction |-> "zero", maxResizes |-> 0]

(***************************************************************************)
(* Hashing, equality and probing                                           *)
(***************************************************************************)
RECURSIVE sumBytes(_)
sumBytes(bs) == IF bs = <<>> THEN 0 ELSE Head(bs) + sumBytes(Tail(bs))

\* the HashFunction supplied by the caller, applied to len bytes at address
hash(m, address, len) ==
    LET bs == getBytes(m, address, len)
    IN CASE m.hashFunction = "zero" -> 0
         [] m.hashFunction = "sum" -> sumBytes(bs)
         [] m.hashFunction = "neg" -> 0 - sumBytes(bs) - 1
         [] m.hashFunction = "last" -> -1

\* h & mask for mask = 2^k - 1, h any int
andMask(h, mask) == h % (mask + 1)

RECURSIVE eqLong(_, _, _, _)
eqLong(m, a, b, lim) ==
    IF b < lim
    THEN IF getBytes(m, a, 8) # getBytes(m, b, 8) THEN FALSE
         ELSE eqLong(m, a + 8, b + 8, lim)
    ELSE TRUE

RECURSIVE eqInt(_, _, _, _)
eqInt(m, a, b, lim) ==
    IF b < lim
    THEN IF UnsafeGetInt(m, a) # UnsafeGetInt(m, b) THEN FALSE
         ELSE eqInt(m, a + 4, b + 4, lim)
    ELSE TRUE

RECURSIVE eqBytes(_, _, _, _)
eqBytes(m, a, b, lim) ==
    IF b < lim
    THEN IF getBytes(m, a, 1) # getBytes(m, b, 1) THEN FALSE
         ELSE eqBytes(m, a + 1, b + 1, lim)
    ELSE TRUE

RECURSIVE eqLongEnd(_, _)
\* the address behind the last long eqLong(a, b, lim) reads at b when all match
eqLongEnd(b, lim) == IF b < lim THEN eqLongEnd(b + 8, lim) ELSE b

RECURSIVE eqIntEnd(_, _)
\* the address behind the last int eqInt(a, b, lim) reads at b when all match
eqIntEnd(b, lim) == IF b < lim THEN eqIntEnd(b + 4, lim) ELSE b

RECURSIVE eqMixedEnd(_, _)
\* the address behind the last long or byte eqMixed(a, b, lim) reads at b
eqMixedEnd(b, lim) ==
    IF b < lim - 8 THEN eqMixedEnd(b + 8, lim)
    ELSE IF b < lim THEN lim ELSE b

RECURSIVE eqMixedLongsOnly(_, _, _, _)
\* a mixed comparison that leaves out the bytes behind the last long
eqMixedLongsOnly(m, a, b, lim) ==
    IF b < lim - 8
    THEN IF getBytes(m, a, 8) # getBytes(m, b, 8) THEN FALSE
         ELSE eqMixedLongsOnly(m, a + 8, b + 8, lim)
    ELSE TRUE

RECURSIVE eqMixed(_, _, _, _)
eqMixed(m, a, b, lim) ==
    IF b < lim - 8
    THEN IF getBytes(m, a, 8) # getBytes(m, b, 8) THEN FALSE
         ELSE eqMixed(m, a + 8, b + 8, lim)
    ELSE eqBytes(m, a, b, lim)

\* an equality that tells every two records apart
eqNever(m, offset) == FALSE

\* an equality that compares the record lengths only
eqLengthOnly(m, offset) ==
    UnsafeGetInt(m, m.kStart + offset) = UnsafeGetInt(m, m.key.startAddress)

\* eq(keyWriter, offset): the record at offset against the key being written
eq(m, offset) ==
    LET a == m.kStart + offset
        b == m.key.startAddress
        lim == b + m.key.len
        d == lim - (b + m.keyDataOffset)
    IN IF UnsafeGetInt(m, a) # UnsafeGetInt(m, b) THEN FALSE
       ELSE IF d % 8 = 0 THEN eqLong(m, a + m.keyDataOffset, b + m.keyDataOffset, lim)
       ELSE IF d % 4 = 0 THEN eqInt(m, a + m.keyDataOffset, b + m.keyDataOffset, lim)
       ELSE eqMixed(m, a + m.keyDataOffset, b + m.keyDataOffset, lim)

\* a bucket index hashed over the whole candidate record
keyIndexOfRecord(m) ==
    andMask(hash(m, m.key.startAddress, m.key.len), m.mask)

keyIndex(m) ==
    andMask(hash(m, m.key.startAddress + m.keyDataOffset, m.key.len - m.keyDataOffset),
            m.mask)

\* a positioning that moves the three views together
valueOfShared(m, address, new, v) ==
    [m EXCEPT !.value = [address |-> address, isNew |-> new],
              !.value2 = [address |-> address, isNew |-> new],
              !.value3 = [address |-> address, isNew |-> new]]

\* FastMapValue.of(address, new) on the view named v
valueOf(m, address, new, v) ==
    [m EXCEPT ![v] = [address |-> address, isNew |-> new]]

\* a rehash that takes the home slot without probing
rehashSlotNoProbe(pointers, index, mask) == index

RECURSIVE rehashSlot(_, _, _)
\* the inner loop of rehash: the first empty slot of pointers from index on
rehashSlot(pointers, index, mask) ==
    IF index \in DOMAIN pointers THEN rehashSlot(pointers, andMask(index + 1, mask), mask)
    ELSE index

RECURSIVE rehashFrom(_, _, _, _)
\* the outer loop of rehash over the slots of the old directory in increasing
\* order (empty slots are skipped), filling pointers
rehashFrom(m, slots, mask, pointers) ==
    IF slots = {} THEN pointers
    ELSE LET i == minOf(slots)
             offset == m.offsets[i]
             index == andMask(hash(m, m.kStart + offset + m.keyDataOffset,
                                   UnsafeGetInt(m, m.kStart + offset) - m.keyDataOffset),
                              mask)
             slot == rehashSlot(pointers, index, mask)
         IN rehashFrom(m, slots \ {i}, mask, offsetsSet(pointers, slot, offset))

\* a rehash that keeps the mask of the directory it replaces
rehashKeepsMask(m) ==
    LET capacity == m.keyCapacity * 2
        pointers == rehashFrom(m, DOMAIN m.offsets, m.mask, zeroed(capacity))
    IN [m EXCEPT !.offsets = pointers,
                 !.offsetsPos = capacity,
                 !.free = (m.free * m.loadFactor[2]
                             + (capacity - m.keyCapacity) * m.loadFactor[1])
                          \div m.loadFactor[2],
                 !.keyCapacity = capacity]

rehash(m) ==
    LET capacity == m.keyCapacity * 2
        mask == capacity - 1
        pointers == rehashFrom(m, DOMAIN m.offsets, mask, zeroed(capacity))
    IN [m EXCEPT !.mask = mask,
                 !.offsets = pointers,
                 !.offsetsPos = capacity,
                 !.free = (m.free * m.loadFactor[2]
                             + (capacity - m.keyCapacity) * m.loadFactor[1])
                          \div m.loadFactor[2],
                 !.keyCapacity = capacity]

\* an insertion that rehashes one record early
asNewEagerRehash(m, index, v) ==
    LET m1 == [m EXCEPT !.kPos = m.key.appendAddress,
                        !.offsets = offsetsSet(@, index, m.key.startAddress - m.kStart),
                        !.free = m.free - 1]
        m2 == IF m1.free <= 1 THEN rehash(m1) ELSE m1
        m3 == [m2 EXCEPT !.size = m2.size + 1]
    IN valueOf(m3, m.key.startAddress, TRUE, v)

\* an insertion that does not count the record
asNewUncounted(m, index, v) ==
    LET m1 == [m EXCEPT !.kPos = m.key.appendAddress,
                        !.offsets = offsetsSet(@, index, m.key.startAddress - m.kStart),
                        !.free = m.free - 1]
        m2 == IF m1.free = 0 THEN rehash(m1) ELSE m1
    IN valueOf(m2, m.key.startAddress, TRUE, v)

asNew(m, index, v) ==
    LET m1 == [m EXCEPT !.kPos = m.key.appendAddress,
                        !.offsets = offsetsSet(@, index, m.key.startAddress - m.kStart),
                        !.free = m.free - 1]
        m2 == IF m1.free = 0 THEN rehash(m1) ELSE m1
        m3 == [m2 EXCEPT !.size = m2.size + 1]
    IN valueOf(m3, m.key.startAddress, TRUE, v)

RECURSIVE probeSlotSkipping(_, _, _)
\* a probe that steps over every other slot
probeSlotSkipping(m, index, steps) ==
    LET next == andMask(index + 2, m.mask)
        offset == offsetsGet(m, next)
    IN IF steps = 0 THEN -1
       ELSE IF offset = -1 THEN next
       ELSE IF eq(m, offset) THEN next
       ELSE probeSlotSkipping(m, next, steps - 1)

RECURSIVE probeSlot(_, _, _)
\* the loop of probe0 / probeReadOnly entered with index: the slot at which it
\* stops (an empty slot or one whose record equals the key), -1 when no slot
\* stops it within steps iterations: with steps = keyCapacity the loop has
\* then been round the whole directory and goes on for ever, and the probe
\* returns "never"
probeSlot(m, index, steps) ==
    LET next == andMask(index + 1, m.mask)
        offset == offsetsGet(m, next)
    IN IF steps = 0 THEN -1
       ELSE IF offset = -1 THEN next
       ELSE IF eq(m, offset) THEN next
       ELSE probeSlot(m, next, steps - 1)

probe0(m, index, v) ==
    LET slot == probeSlot(m, index, m.keyCapacity)
    IN IF slot = -1 THEN [map |-> m, ret |-> "never"]
       ELSE IF offsetsGet(m, slot) # -1
       THEN [map |-> valueOf(m, m.kStart + offsetsGet(m, slot), FALSE, v), ret |-> "value"]
       ELSE [map |-> asNew(m, slot, v), ret |-> "value"]

\* a read-only probe that inserts at the empty slot it reaches
probeReadOnlyCreates(m, index, v) == probe0(m, index, v)

\* a read-only probe that gives up at the first collision
probeReadOnlyGivesUp(m, index, v) == [map |-> m, ret |-> "null"]

\* a read-only probe that looks at one slot behind the home bucket
probeReadOnlyOneStep(m, index, v) ==
    LET slot == probeSlot(m, index, 1)
    IN IF slot = -1 THEN [map |-> m, ret |-> "null"]
       ELSE IF offsetsGet(m, slot) # -1
       THEN [map |-> valueOf(m, m.kStart + offsetsGet(m, slot), FALSE, v), ret |-> "value"]
       ELSE [map |-> m, ret |-> "null"]

probeReadOnly(m, index, v) ==
    LET slot == probeSlot(m, index, m.keyCapacity)
    IN IF slot = -1 THEN [map |-> m, ret |-> "never"]
       ELSE IF offsetsGet(m, slot) # -1
       THEN [map |-> valueOf(m, m.kStart + offsetsGet(m, slot), FALSE, v), ret |-> "value"]
       ELSE [map |-> m, ret |-> "null"]

(***************************************************************************)
(* Arena growth                                                            *)
(***************************************************************************)
\* realloc: the first min(old, new) bytes are kept, the rest is uninitialised
realloc(mem, oldSize, newSize) ==
    [o \in 0..(newSize - 1) |-> IF o < oldSize THEN mem[o] ELSE Uninit]

\* a resize that moves the arena and leaves the builder's addresses in the old one
resizeKeyNotRebased(m, size, kAddress) ==
    IF m.nResizes < m.maxResizes
    THEN LET kCapacity0 == (m.kLimit - m.kStart) * 2
             target == m.key.appendAddress + size - m.kStart
             kCapacity == IF kCapacity0 < target THEN ceilPow2(target) ELSE kCapacity0
             d == kAddress - m.kStart
         IN [map |-> [m EXCEPT
                        !.nResizes = m.nResizes + 1,
                        !.mem = realloc(m.mem, m.capacity, kCapacity),
                        !.capacity = kCapacity,
                        !.kPos = m.kPos + d,
                        !.kStart = kAddress,
                        !.kLimit = kAddress + kCapacity],
             exc |-> "none"]
    ELSE [map |-> m, exc |-> "LimitOverflowException"]

\* a resize that always rounds the required size up to a power of two and takes
\* the larger of that and twice the capacity
resizeToMax(m, size, kAddress) ==
    IF m.nResizes < m.maxResizes
    THEN LET kCapacity0 == (m.kLimit - m.kStart) * 2
             target == m.key.appendAddress + size - m.kStart
             kCapacity == IF kCapacity0 < ceilPow2(target) THEN ceilPow2(target)
                          ELSE kCapacity0
             d == kAddress - m.kStart
             colOffsetDelta == m.key.nextColOffset - m.key.startAddress
         IN [map |-> [m EXCEPT
                        !.nResizes = m.nResizes + 1,
                        !.mem = realloc(m.mem, m.capacity, kCapacity),
                        !.capacity = kCapacity,
                        !.kPos = m.kPos + d,
                        !.key.startAddress = m.key.startAddress + d,
                        !.key.appendAddress = m.key.appendAddress + d,
                        !.key.nextColOffset = m.key.startAddress + d + colOffsetDelta,
                        !.kStart = kAddress,
                        !.kLimit = kAddress + kCapacity],
             exc |-> "none"]
    ELSE [map |-> m, exc |-> "LimitOverflowException"]

\* a resize that allows one reallocation more than maxResizes
resizeOnceMore(m, size, kAddress) ==
    IF m.nResizes <= m.maxResizes
    THEN LET kCapacity0 == (m.kLimit - m.kStart) * 2
             target == m.key.appendAddress + size - m.kStart
             kCapacity == IF kCapacity0 < target THEN ceilPow2(target) ELSE kCapacity0
             d == kAddress - m.kStart
             colOffsetDelta == m.key.nextColOffset - m.key.startAddress
         IN [map |-> [m EXCEPT
                        !.nResizes = m.nResizes + 1,
                        !.mem = realloc(m.mem, m.capacity, kCapacity),
                        !.capacity = kCapacity,
                        !.kPos = m.kPos + d,
                        !.key.startAddress = m.key.startAddress + d,
                        !.key.appendAddress = m.key.appendAddress + d,
                        !.key.nextColOffset = m.key.startAddress + d + colOffsetDelta,
                        !.kStart = kAddress,
                        !.kLimit = kAddress + kCapacity],
             exc |-> "none"]
    ELSE [map |-> m, exc |-> "LimitOverflowException"]

\* a resize that grows the arena before it looks at the resize limit
resizeThenThrow(m, size, kAddress) ==
    LET kCapacity == (m.kLimit - m.kStart) * 2
    IN [map |-> [m EXCEPT !.nResizes = m.nResizes + 1,
                          !.mem = realloc(m.mem, m.capacity, kCapacity),
                          !.capacity = kCapacity,
                          !.kLimit = m.kStart + kCapacity],
        exc |-> IF m.nResizes < m.maxResizes THEN "none" ELSE "LimitOverflowException"]

\* resize(size): realloc returns kAddress; throws once maxResizes is reached
resize(m, size, kAddress) ==
    IF m.nResizes < m.maxResizes
    THEN LET kCapacity0 == (m.kLimit - m.kStart) * 2
             target == m.key.appendAddress + size - m.kStart
             kCapacity == IF kCapacity0 < target THEN ceilPow2(target) ELSE kCapacity0
             d == kAddress - m.kStart
             colOffsetDelta == m.key.nextColOffset - m.key.startAddress
         IN [map |-> [m EXCEPT
                        !.nResizes = m.nResizes + 1,
                        !.mem = realloc(m.mem, m.capacity, kCapacity),
                        !.capacity = kCapacity,
                        !.kPos = m.kPos + d,
                        !.key.startAddress = m.key.startAddress + d,
                        !.key.appendAddress = m.key.appendAddress + d,
                        !.key.nextColOffset = m.key.startAddress + d + colOffsetDelta,
                        !.kStart = kAddress,
                        !.kLimit = kAddress + kCapacity],
             exc |-> "none"]
    ELSE [map |-> m, exc |-> "LimitOverflowException"]

(***************************************************************************)
(* Key                                                                     *)
(***************************************************************************)
\* an init that leaves a byte between the last record and the new key
Key_initAfterGap(m) ==
    [m EXCEPT !.key.startAddress = m.kPos + 1,
              !.key.appendAddress = m.kPos + 1 + m.keyDataOffset,
              !.key.nextColOffset = m.kPos + 1 + m.keyBlockOffset]

Key_init(m) ==
    [m EXCEPT !.key.startAddress = m.kPos,
              !.key.appendAddress = m.kPos + m.keyDataOffset,
              !.key.nextColOffset = m.kPos + m.keyBlockOffset]

withKey(m) == Key_init(m)

\* a size check that grows the arena on every put
checkSizeAlways(m, size, kAddress) == resize(m, size, kAddress)

\* appendAddress + size > kLimit, the sum of the two longs not being formed
checkSize(m, size, kAddress) ==
    IF size > m.kLimit - m.key.appendAddress THEN resize(m, size, kAddress)
    ELSE [map |-> m, exc |-> "none"]

\* (len << 1) + 4 in the 32 bits of an int, for 0 <= len <= Integer.MAX_VALUE
strSize(len) ==
    IF len <= 1073741821 THEN 2 * len + 4
    ELSE 2 * ((len - 1073741824) - 1073741824 + 2)

\* appendAddress += a + 2 * b, then writeOffset(). The model's integers end at
\* Integer.MAX_VALUE: when len is past it the sum is not formed and the
\* builder, which withKey() resets before it is read again, keeps its
\* appendAddress.
writeOffset(m, a, b) ==
    LET len0 == m.key.appendAddress - m.key.startAddress
    IN IF b > (Integer_MAX_VALUE - len0 - a) \div 2
       THEN [map |-> m, exc |-> "CairoException"]
       ELSE [map |-> [UnsafePutInt(m, m.key.nextColOffset, len0 + a + 2 * b) EXCEPT
                        !.key.appendAddress = m.key.appendAddress + a + 2 * b,
                        !.key.nextColOffset = m.key.nextColOffset + 4],
             exc |-> "none"]

\* the fixed-width puts: checkSize, write the bytes, advance, writeOffset
putFixed(m, bs, kAddress) ==
    LET c == checkSize(m, Len(bs), kAddress)
        m1 == c.map
        m2 == putBytes(m1, m1.key.appendAddress, bs)
    IN IF c.exc # "none" THEN c
       ELSE writeOffset(m2, Len(bs), 0)

Key_putInt(m, value, kAddress) == putFixed(m, intBytes(value), kAddress)

Key_putByte(m, value, kAddress) == putFixed(m, <<value % 256>>, kAddress)

\* a putNull that writes the length of the empty string
Key_putNullAsEmpty(m, kAddress) == putFixed(m, intBytes(0), kAddress)

Key_putNull(m, kAddress) == putFixed(m, intBytes(NULL_LEN), kAddress)

\* putStr(value): null goes to putNull, else length, chars, writeOffset
Key_putStr(m, value, kAddress) ==
    IF value = NullStr THEN Key_putNull(m, kAddress)
    ELSE LET len == length(value)
             c == checkSize(m, strSize(len), kAddress)
             m1 == c.map
             m2 == UnsafePutInt(m1, m1.key.appendAddress, len)
             m3 == putChars(m2, m1.key.appendAddress + 4, value)
         IN IF c.exc # "none" THEN c
            ELSE writeOffset(m3, 4, len)

\* putBin(value): null goes to putNull, else the length check, length, bytes,
\* writeOffset; a long sequence that passes the length check is not written
\* out: the specifications that put one set maxResizes = 0, so that checkSize
\* refuses it
Key_putBin(m, value, kAddress) ==
    IF value = NullStr THEN Key_putNull(m, kAddress)
    ELSE IF length(value) > Integer_MAX_VALUE - 4
    THEN [map |-> m, exc |-> "CairoException"]
    ELSE LET len == length(value) + 4
             c == checkSize(m, len, kAddress)
             m1 == c.map
             m2 == UnsafePutInt(m1, m1.key.appendAddress, len - 4)
             m3 == putBytes(m2, m1.key.appendAddress + 4, value)
         IN IF c.exc # "none" THEN c
            ELSE writeOffset(m3, len, 0)

\* the typed put the caller uses for a column of type t
Key_put(m, t, value, kAddress) ==
    CASE t = "INT" -> Key_putInt(m, value, kAddress)
      [] t = "BYTE" -> Key_putByte(m, value, kAddress)
      [] t = "STRING" -> Key_putStr(m, value, kAddress)
      [] t = "BINARY" -> Key_putBin(m, value, kAddress)

Key_commit(m) ==
    LET len == m.key.appendAddress - m.key.startAddress
    IN [UnsafePutInt(m, m.key.startAddress, len) EXCEPT !.key.len = len]

\* a createValue that keeps the candidate of a key it has found
Key_createValueKeepsCandidate(m0, v) ==
    LET m == Key_commit(m0)
        index == keyIndex(m)
        offset == offsetsGet(m, index)
    IN IF offset = -1 THEN [map |-> asNew(m, index, v), ret |-> "value"]
       ELSE IF eq(m, offset)
       THEN [map |-> valueOf([m EXCEPT !.kPos = m.key.appendAddress],
                             m.kStart + offset, FALSE, v),
             ret |-> "value"]
       ELSE probe0(m, index, v)

Key_createValue(m0, v) ==
    LET m == Key_commit(m0)
        index == keyIndex(m)
        offset == offsetsGet(m, index)
    IN IF offset = -1 THEN [map |-> asNew(m, index, v), ret |-> "value"]
       ELSE IF eq(m, offset)
       THEN [map |-> valueOf(m, m.kStart + offset, FALSE, v), ret |-> "value"]
       ELSE probe0(m, index, v)

\* a findValue that inserts the key it does not find
Key_findValueInserting(m0, v) == Key_createValue(m0, v)

Key_findValue(m0, v) ==
    LET m == Key_commit(m0)
        index == keyIndex(m)
        offset == offsetsGet(m, index)
    IN IF offset = -1 THEN [map |-> m, ret |-> "null"]
       ELSE IF eq(m, offset)
       THEN [map |-> valueOf(m, m.kStart + offset, FALSE, v), ret |-> "value"]
       ELSE probeReadOnly(m, index, v)

\* MapKey.notFound(): findValue() == null
MapKey_notFound(m) == Key_findValue(m, "value").ret = "null"

\* MapKey.create(): createValue().isNew()
MapKey_create(m) == Key_createValue(m, "value").map.value.isNew

(***************************************************************************)
(* Map operations                                                          *)
(***************************************************************************)
\* a clear that leaves the directory as it is
clearKeepsDirectory(m) ==
    [m EXCEPT !.kPos = m.kStart,
              !.free = mulByFactor(m.keyCapacity, m.loadFactor),
              !.size = 0]

clear(m) ==
    [m EXCEPT !.kPos = m.kStart,
              !.free = mulByFactor(m.keyCapacity, m.loadFactor),
              !.size = 0,
              !.offsets = zeroed(m.keyCapacity)]

restoreInitialCapacity(m, kAddress) ==
    LET kc == initialCapacity(m.initialKeyCapacity, m.loadFactor)
    IN [m EXCEPT !.mem = realloc(m.mem, m.kLimit - m.kStart, m.initialPageSize),
                 !.capacity = m.initialPageSize,
                 !.kStart = kAddress, !.kPos = kAddress,
                 !.kLimit = kAddress + m.initialPageSize,
                 !.keyCapacity = kc,
                 !.mask = kc - 1,
                 !.free = mulByFactor(kc, m.loadFactor),
                 !.offsets = zeroed(kc),
                 !.offsetsPos = kc,
                 !.nResizes = 0]

size(m) == m.size

(***************************************************************************)
(* FastMapRecord                                                           *)
(***************************************************************************)
\* of(address)
Record_of(m, address) ==
    [m EXCEPT !.record = [address0 |-> address,
                          address1 |-> address + m.keyDataOffset,
                          address2 |-> address + m.keyBlockOffset]]

\* split = number of value columns; valueOffsets is indexed from 0 in the code
addressOfColumn(m, index) ==
    LET split == m.valueColumnCount
    IN IF index < split THEN m.record.address0 + m.valueOffsets[index + 1]
       ELSE IF index = split THEN m.record.address1
       ELSE UnsafeGetInt(m, m.record.address2 + (index - split - 1) * 4) + m.record.address0

Record_getInt(m, columnIndex) == UnsafeGetInt(m, addressOfColumn(m, columnIndex))

Record_getByte(m, columnIndex) == getBytes(m, addressOfColumn(m, columnIndex), 1)[1]

\* getStr0: null for NULL_LEN, else the chars in [address + 4, address + 4 + len * 2)
Record_getStr0(m, index) ==
    LET address == addressOfColumn(m, index)
        len == UnsafeGetInt(m, address)
    IN IF len = NULL_LEN THEN NullStr
       ELSE [i \in 1..len |-> bytesChar(getBytes(m, address + 4 + 2 * (i - 1), 2))]

\* getBin: null for NULL_LEN, else len bytes at address + 4
Record_getBin(m, columnIndex) ==
    LET address == addressOfColumn(m, columnIndex)
        len == UnsafeGetInt(m, address)
    IN IF len = NULL_LEN THEN NullStr ELSE getBytes(m, address + 4, len)

\* the typed get matching a key column of type t
Record_get(m, t, columnIndex) ==
    CASE t = "INT" -> Record_getInt(m, columnIndex)
      [] t = "BYTE" -> Record_getByte(m, columnIndex)
      [] t = "STRING" -> Record_getStr0(m, columnIndex)
      [] t = "BINARY" -> Record_getBin(m, columnIndex)

(***************************************************************************)
(* FastMapValue: typed accessors at address + valueOffsets[index]          *)
(***************************************************************************)
\* garbage is what the read gives when the bytes were never written
Value_getInt(m, v, index, garbage) ==
    LET bs == getBytes(m, m[v].address + m.valueOffsets[index + 1], 4)
    IN IF \E i \in 1..4 : bs[i] = Uninit THEN garbage ELSE bytesInt(bs)

Value_putInt(m, v, index, value) ==
    UnsafePutInt(m, m[v].address + m.valueOffsets[index + 1], value)

Value_addInt(m, v, index, value, garbage) ==
    Value_putInt(m, v, index, Value_getInt(m, v, index, garbage) + value)

Value_isNew(m, v) == m[v].isNew

(***************************************************************************)
(* FastMapCursor: walks the directory slot by slot, skipping empty slots   *)
(***************************************************************************)
\* getCursor(): cursor.init(kStart, size)
getCursor(m) ==
    [m EXCEPT !.cursor = [state |-> "Iterating", address |-> m.kStart,
                          remaining |-> m.size, index |-> 0]]

\* the first non-empty slot at or after index, keyCapacity when there is none
nextLive(m, index) ==
    LET later == {i \in DOMAIN m.offsets : i >= index}
    IN IF later = {} THEN m.keyCapacity ELSE minOf(later)

\* hasNext(): TRUE and the record repositioned while records remain
Cursor_hasNext(m) ==
    IF m.cursor.remaining > 0
    THEN LET slot == nextLive(m, m.cursor.index)
         IN IF slot >= m.keyCapacity
            THEN [map |-> [m EXCEPT !.cursor.state = "Overrun",
                                    !.cursor.index = slot,
                                    !.cursor.remaining = m.cursor.remaining - 1],
                  ret |-> "overrun"]
            ELSE [map |-> [Record_of(m, m.cursor.address + m.offsets[slot])
                             EXCEPT !.cursor.index = slot + 1,
                                    !.cursor.remaining = m.cursor.remaining - 1],
                  ret |-> "true"]
    ELSE [map |-> [m EXCEPT !.cursor.state = "Exhausted"], ret |-> "false"]

(***************************************************************************)
(* The caller                                                              *)
(***************************************************************************)
noFun == [k \in {} |-> 0]

noHist ==
    [created |-> noFun,      \* key |-> arena offset of its record, since the last reset
     sums |-> noFun,         \* key |-> sum of the values added through the view
     lastReset |-> "new",    \* what emptied the map last: "new", "clear" or "restore"
     nCreates |-> 0,
     nAdds |-> 0,
     nResets |-> 0,
     yielded |-> <<>>]       \* arena offsets of the records the cursor has yielded

\* the values a caller puts into a key column of type t
ColumnValues(t) ==
    CASE t = "INT" -> IntValues
      [] t = "BYTE" -> {0, 255}
      [] t = "STRING" -> StrValues
      [] t = "BINARY" -> {NullStr, <<>>, <<1, 2, 3>>}

\* the threads that read the map together
Readers == { 1, 2 }

noLookup ==
    [pc |-> "idle", key |-> <<>>, n |-> 0, clean |-> TRUE, ret |-> "none", offset |-> -1]

noReaders == [r \in Readers |-> noLookup]

\* the keys a caller can build
AllKeys == { <<i, s>> : i \in IntValues, s \in StrValues }

\* a whole lookup's key: withKey() and the put of every column, the arena
\* staying in place when it grows
RECURSIVE putColumns(_, _, _)
putColumns(r, key, i) ==
    IF i > Len(key) \/ r.exc # "none" THEN r
    ELSE putColumns(Key_put(r.map, r.map.keyTypes[i], key[i], r.map.kStart), key, i + 1)

lookupKey(m, key) == putColumns([map |-> withKey(m), exc |-> "none"], key, 1)

\* what findValue() gives for the key built in f: the arena offset of the
\* record it found
foundAt(f) ==
    [ret |-> f.ret,
     offset |-> IF f.ret = "value" THEN f.map.value.address - f.map.kStart ELSE -1]

\* map.withKey().put...().findValue() as one call sequence
findOf(m, key) ==
    IF lookupKey(m, key).exc # "none"
    THEN [ret |-> lookupKey(m, key).exc, offset |-> -1]
    ELSE foundAt(Key_findValue(lookupKey(m, key).map, "value"))

Init ==
    /\ rd = noReaders
    /\ st = "none"
    /\ args = noArgs
    /\ map = noMap
    /\ exc = "none"
    /\ ret = "none"
    /\ last = "none"
    /\ cur = <<>>
    /\ hist = noHist

\* new FastMap(pageSize, keyTypes, valueTypes, keyCapacity, loadFactor, hashFunction, maxResizes)
\* with arguments from argSet
NewOf(argSet) ==
    /\ st = "none"
    /\ \E a \in argSet :
         \E r \in {FastMap(a, Base0)} :
            /\ args' = a
            /\ map' = r.map
            /\ exc' = r.exc
            /\ st' = IF r.exc = "none" THEN "open" ELSE "failed"
    /\ last' = "new"
    /\ UNCHANGED <<rd, ret, cur, hist>>

New == NewOf(ConstructorArgs)

iterating == map.cursor.state # "Idle"

\* the caller is between withKey() and createValue() / findValue()
building == last \in {"withKey", "put"}

\* the key holds all its columns: createValue() / findValue() may be called
built ==
    /\ last \in {"put", "create", "find"}
    /\ Len(cur) = Len(map.keyTypes)
    /\ exc = "none"

\* map.withKey()
WithKey ==
    /\ st = "open" /\ ~iterating
    /\ map' = withKey(map)
    /\ last' = "withKey"
    /\ cur' = <<>>
    /\ exc' = "none"
    /\ ret' = "none"
    /\ UNCHANGED <<rd, st, args, hist>>

\* key.putInt / putStr / ...: the typed put of the next key column, its string
\* taken from strs
PutOf(strs) ==
    /\ st = "open" /\ building /\ ~iterating
    /\ Len(cur) < Len(map.keyTypes)
    /\ LET t == map.keyTypes[Len(cur) + 1]
       IN \E value \in (IF t = "STRING" THEN strs ELSE ColumnValues(t)), kAddress \in Bases :
            \E r \in {Key_put(map, t, value, kAddress)} :
               /\ map' = r.map
               /\ exc' = r.exc
               /\ cur' = IF r.exc = "none" THEN cur \o <<value>> ELSE cur
    /\ last' = "put"
    /\ ret' = "none"
    /\ UNCHANGED <<rd, st, args, hist>>

Put == PutOf(StrValues)

\* the puts of an aggregation over two groups
PutGroup == PutOf(GroupNames)

\* the value views of a map
Views == { "value", "value2", "value3" }

\* key.createValue(), createValue2() or createValue3(): the view named v
CreateValueOn(v) ==
    /\ st = "open" /\ built /\ ~iterating
    /\ hist.nCreates < MaxCreates \/ cur \in DOMAIN hist.created
    /\ \E r \in {Key_createValue(map, v)} :
          /\ map' = r.map
          /\ ret' = r.ret
          /\ hist' = IF cur \in DOMAIN hist.created THEN hist
                     ELSE [hist EXCEPT
                             !.nCreates = @ + 1,
                             !.created = @ @@ (cur :> (map.key.startAddress - map.kStart)),
                             !.sums = @ @@ (cur :> 0)]
    /\ last' = "create"
    /\ exc' = "none"
    /\ UNCHANGED <<rd, st, args, cur>>

\* key.createValue()
CreateValue == CreateValueOn("value")

\* key.findValue(), findValue2() or findValue3(): the view named v
FindValueOn(v) ==
    /\ st = "open" /\ built /\ ~iterating
    /\ \E r \in {Key_findValue(map, v)} :
          /\ map' = r.map
          /\ ret' = r.ret
    /\ last' = "find"
    /\ exc' = "none"
    /\ UNCHANGED <<rd, st, args, cur, hist>>

\* key.findValue()
FindValue == FindValueOn("value")

\* value.addInt(0, x) on the view createValue() has just returned
AddInt ==
    /\ st = "open" /\ ~iterating
    /\ last = "create" /\ ret = "value"
    /\ hist.nAdds < MaxAdds
    /\ \E x \in AddValues, garbage \in GarbageInts :
         /\ map' = Value_addInt(map, "value", 0, x, garbage)
         /\ hist' = [hist EXCEPT !.nAdds = @ + 1, !.sums[cur] = @ + x]
    /\ last' = "addInt"
    /\ UNCHANGED <<rd, st, args, exc, ret, cur>>

\* map.clear(), between lookups
Clear ==
    /\ st = "open" /\ ~iterating /\ ~building
    /\ hist.nResets < MaxResets
    /\ map' = clear(map)
    /\ last' = "clear"
    /\ cur' = <<>>
    /\ exc' = "none"
    /\ ret' = "none"
    /\ hist' = [noHist EXCEPT !.lastReset = "clear",
                              !.nResets = hist.nResets + 1,
                              !.nCreates = hist.nCreates, !.nAdds = hist.nAdds]
    /\ UNCHANGED <<rd, st, args>>

\* map.clear() after an accumulation
ClearGroups == last = "addInt" /\ Clear

\* map.restoreInitialCapacity(), between lookups
RestoreInitialCapacity ==
    /\ st = "open" /\ ~iterating /\ ~building
    /\ hist.nResets < MaxResets
    /\ \E kAddress \in Bases :
         map' = restoreInitialCapacity(map, kAddress)
    /\ last' = "restore"
    /\ cur' = <<>>
    /\ exc' = "none"
    /\ ret' = "none"
    /\ hist' = [noHist EXCEPT !.lastReset = "restore",
                              !.nResets = hist.nResets + 1,
                              !.nCreates = hist.nCreates, !.nAdds = hist.nAdds]
    /\ UNCHANGED <<rd, st, args>>

\* map.getCursor(), between lookups
GetCursor ==
    /\ st = "open" /\ ~iterating /\ ~building
    /\ map' = getCursor(map)
    /\ last' = "getCursor"
    /\ cur' = <<>>
    /\ exc' = "none"
    /\ ret' = "none"
    /\ hist' = [hist EXCEPT !.yielded = <<>>]
    /\ UNCHANGED <<rd, st, args>>

\* cursor.hasNext()
HasNext ==
    /\ st = "open" /\ map.cursor.state = "Iterating"
    /\ \E r \in {Cursor_hasNext(map)} :
          /\ map' = r.map
          /\ ret' = r.ret
          /\ hist' = [hist EXCEPT
                        !.yielded = IF r.ret = "true"
                                    THEN Append(@, r.map.record.address0 - r.map.kStart)
                                    ELSE @]
    /\ last' = "hasNext"
    /\ UNCHANGED <<rd, st, args, exc, cur>>

\* construction, lookups, resets and iteration
Next ==
    \/ New
    \/ WithKey
    \/ Put
    \/ CreateValue
    \/ FindValue
    \/ Clear
    \/ RestoreInitialCapacity
    \/ GetCursor
    \/ HasNext

Spec == Init /\ [][Next]_vars

\* an aggregation loop: construction, createValue() with accumulation through the
\* value view, and clear
NextValue ==
    \/ New
    \/ WithKey
    \/ PutGroup
    \/ CreateValue
    \/ AddInt
    \/ ClearGroups

SpecValue == Init /\ [][NextValue]_vars

\* a ternary aggregation: lookups through the three value views
NextViews ==
    \/ New
    \/ WithKey
    \/ PutGroup
    \/ \E v \in Views : CreateValueOn(v)
    \/ \E v \in Views : FindValueOn(v)

SpecViews == Init /\ [][NextViews]_vars

\* a map keyed by a string and a binary column, its arena fixed at one page
LargeArgs ==
    [pageSize : {64}, keyTypes : {<<"STRING", "BINARY">>}, valueTypes : {<<"INT">>},
     keyCapacity : KeyCapacities, loadFactor : {<<1, 64>>},
     hashFunction : {"sum"}, maxResizes : {0}]

NewLarge == NewOf(LargeArgs)

\* the values of a key column of type t whose encoding (4 + 2 * length for a
\* string, 4 + length for a binary) is past Integer.MAX_VALUE
TooLargeValues(t) ==
    CASE t = "STRING" -> { LongSeq(1073741822), LongSeq(1073741824),
                           LongSeq(Integer_MAX_VALUE) }
      [] t = "BINARY" -> { LongSeq(Integer_MAX_VALUE - 3), LongSeq(Integer_MAX_VALUE) }
      [] OTHER -> {}

\* key.putStr / putBin of a value from TooLargeValues. A write outside the
\* arena is undefined: the process dies of it or goes on.
PutTooLarge ==
    /\ st = "open" /\ building /\ ~iterating /\ exc = "none"
    /\ Len(cur) < Len(map.keyTypes)
    /\ LET t == map.keyTypes[Len(cur) + 1]
       IN \E value \in TooLargeValues(t), kAddress \in Bases :
            \E r \in {Key_put([map EXCEPT !.overrun = FALSE], t, value, kAddress)} :
               \E dies \in (IF r.map.overrun THEN BOOLEAN ELSE {FALSE}) :
                  /\ map' = [r.map EXCEPT !.overrun = @ \/ map.overrun]
                  /\ exc' = IF dies THEN "SIGSEGV" ELSE r.exc
                  /\ st' = IF dies THEN "crashed" ELSE st
                  /\ cur' = IF r.exc = "none" /\ ~dies THEN cur \o <<value>> ELSE cur
    /\ last' = "putLarge"
    /\ ret' = "none"
    /\ UNCHANGED <<rd, args, hist>>

\* lookups whose key columns may be too large for a record
NextLarge ==
    \/ NewLarge
    \/ WithKey
    \/ PutGroup
    \/ PutTooLarge
    \/ CreateValue
    \/ FindValue

SpecLarge == Init /\ [][NextLarge]_vars

\* maps of a small page
ArenaArgs ==
    [pageSize : {9}, keyTypes : {KeyTypes}, valueTypes : {<<"INT">>},
     keyCapacity : KeyCapacities, loadFactor : {<<1, 64>>},
     hashFunction : {"sum"}, maxResizes : MaxResizesSet]

NewArena == NewOf(ArenaArgs)

\* key.createValue() on the builder as it is, whatever number of columns has
\* been put since withKey(). A write outside the arena is undefined: the
\* process dies of it or goes on.
CreateValueAny ==
    /\ st = "open" /\ building /\ ~iterating /\ exc = "none"
    /\ hist.nCreates < MaxCreates \/ cur \in DOMAIN hist.created
    /\ \E r \in {Key_createValue([map EXCEPT !.overrun = FALSE], "value")} :
         \E dies \in (IF r.map.overrun THEN BOOLEAN ELSE {FALSE}) :
            /\ map' = [r.map EXCEPT !.overrun = @ \/ map.overrun]
            /\ ret' = IF dies THEN "none" ELSE r.ret
            /\ exc' = IF dies THEN "SIGSEGV" ELSE "none"
            /\ st' = IF dies THEN "crashed" ELSE st
    /\ hist' = IF cur \in DOMAIN hist.created THEN hist
               ELSE [hist EXCEPT
                       !.nCreates = @ + 1,
                       !.created = @ @@ (cur :> (map.key.startAddress - map.kStart)),
                       !.sums = @ @@ (cur :> 0)]
    /\ last' = "create"
    /\ UNCHANGED <<rd, args, cur>>

\* key.findValue() on the builder as it is
FindValueAny ==
    /\ st = "open" /\ building /\ ~iterating /\ exc = "none"
    /\ \E r \in {Key_findValue([map EXCEPT !.overrun = FALSE], "value")} :
         \E dies \in (IF r.map.overrun THEN BOOLEAN ELSE {FALSE}) :
            /\ map' = [r.map EXCEPT !.overrun = @ \/ map.overrun]
            /\ ret' = IF dies THEN "none" ELSE r.ret
            /\ exc' = IF dies THEN "SIGSEGV" ELSE "none"
            /\ st' = IF dies THEN "crashed" ELSE st
    /\ last' = "find"
    /\ UNCHANGED <<rd, args, cur, hist>>

\* lookups with keys of any number of columns, and resets
NextArena ==
    \/ NewArena
    \/ WithKey
    \/ PutGroup
    \/ CreateValueAny
    \/ FindValueAny
    \/ Clear
    \/ RestoreInitialCapacity

SpecArena == Init /\ [][NextArena]_vars

\* maps of a small and of a larger page that may grow twice
GrowArgs ==
    [pageSize : {9, 49}, keyTypes : {KeyTypes}, valueTypes : {<<"INT">>},
     keyCapacity : KeyCapacities, loadFactor : {<<1, 64>>},
     hashFunction : {"sum"}, maxResizes : {2}]

NewGrow == NewOf(GrowArgs)

\* lookups that fill the arena and make it grow
NextGrow ==
    \/ NewGrow
    \/ WithKey
    \/ Put
    \/ CreateValue
    \/ FindValue

SpecGrow == Init /\ [][NextGrow]_vars

\* lookups whose value blocks are written before the directory is rehashed
NextBucket ==
    \/ NewGrow
    \/ WithKey
    \/ PutGroup
    \/ CreateValue
    \/ AddInt

SpecBucket == Init /\ [][NextBucket]_vars

\* maps whose key data blocks are of 4, 8 and 10 bytes or of 5, 9 and 11 bytes
EqualityArgs ==
    [pageSize : {128}, keyTypes : {<<"STRING">>, <<"BYTE", "STRING">>},
     valueTypes : {<<"INT">>}, keyCapacity : KeyCapacities, loadFactor : {<<4, 5>>},
     hashFunction : {"zero"}, maxResizes : MaxResizesSet]

NewEquality == NewOf(EqualityArgs)

\* pairs of strings of one encoded length (4, 8 and 10 bytes)
EqualityStrs ==
    { NullStr, <<>>, <<97, 97>>, <<97, 98>>, <<97, 97, 97>>, <<97, 97, 98>> }

PutEquality == PutOf(EqualityStrs)

\* withKey() of a caller that looks up every key it builds
WithKeyAfterLookup ==
    /\ last \in {"new", "create"}
    /\ WithKey

\* createValue() of a key that is not in the map
CreateValueOfNewKey ==
    /\ cur \notin DOMAIN hist.created
    /\ CreateValue

\* insertions of keys that collide, and one more key built to be compared
NextEquality ==
    \/ NewEquality
    \/ WithKeyAfterLookup
    \/ PutEquality
    \/ CreateValueOfNewKey

SpecEquality == Init /\ [][NextEquality]_vars

\* maps whose keys all collide, in the first or in the last slot of the
\* directory, and are rehashed after the second insertion or never
ProbeArgs ==
    [pageSize : {128}, keyTypes : {KeyTypes}, valueTypes : {<<"INT">>},
     keyCapacity : KeyCapacities, loadFactor : {<<1, 64>>, <<4, 5>>},
     hashFunction : {"zero", "last", "sum"}, maxResizes : MaxResizesSet]

NewProbe == NewOf(ProbeArgs)

\* lookups of colliding keys
NextProbe ==
    \/ NewProbe
    \/ WithKey
    \/ Put
    \/ CreateValue
    \/ FindValue

SpecProbe == Init /\ [][NextProbe]_vars

\* maps of int keys with room for MaxFill records in the first page and a
\* load factor below 1 / MIN_INITIAL_CAPACITY
FillArgs ==
    [pageSize : {16 * (MaxFill + 1)}, keyTypes : {<<"INT">>}, valueTypes : {<<"INT">>},
     keyCapacity : KeyCapacities, loadFactor : {<<2, 257>>},
     hashFunction : {"zero"}, maxResizes : MaxResizesSet]

NewFill == NewOf(FillArgs)

\* key.putInt(n) for the n-th key of a caller that inserts 0, 1, 2, ...
PutNext ==
    /\ st = "open" /\ last = "withKey"
    /\ \E r \in {Key_putInt(map, hist.nCreates, Base0)} :
          /\ map' = r.map
          /\ exc' = r.exc
          /\ cur' = IF r.exc = "none" THEN <<hist.nCreates>> ELSE cur
    /\ last' = "put"
    /\ ret' = "none"
    /\ UNCHANGED <<rd, st, args, hist>>

\* key.createValue() of the key just built; a probe that goes round a
\* directory with no empty slot never returns
CreateValueNext ==
    /\ st = "open" /\ built /\ last = "put"
    /\ hist.nCreates < MaxFill
    /\ \E r \in {Key_createValue(map, "value")} :
          /\ map' = r.map
          /\ ret' = r.ret
          /\ st' = IF r.ret = "never" THEN "spinning" ELSE st
          /\ hist' = IF r.ret = "never" THEN hist
                     ELSE [hist EXCEPT
                             !.nCreates = @ + 1,
                             !.created = @ @@ (cur :> (map.key.startAddress - map.kStart)),
                             !.sums = @ @@ (cur :> 0)]
    /\ last' = "create"
    /\ exc' = "none"
    /\ UNCHANGED <<rd, args, cur>>

\* insertions of distinct keys until the directory is full
NextFill ==
    \/ NewFill
    \/ WithKey
    \/ PutNext
    \/ CreateValueNext

SpecFill == Init /\ [][NextFill]_vars

\* maps whose first page holds every key of the caller
DiscardArgs ==
    [pageSize : {128}, keyTypes : {KeyTypes}, valueTypes : {<<"INT">>},
     keyCapacity : KeyCapacities, loadFactor : {<<4, 5>>},
     hashFunction : {"sum"}, maxResizes : MaxResizesSet]

NewDiscard == NewOf(DiscardArgs)

\* the string of the keys the caller builds and gives up
DiscardedStr == <<100, 100, 100, 100>>

PutKeptOrDiscarded == PutOf(StrValues \cup {DiscardedStr})

\* createValue() of a key the caller does not give up
CreateValueOfKept ==
    /\ Len(cur) = Len(KeyTypes)
    /\ cur[Len(cur)] # DiscardedStr
    /\ CreateValue

\* keys that are built and given up by another withKey(), between lookups
NextDiscard ==
    \/ NewDiscard
    \/ WithKey
    \/ PutKeptOrDiscarded
    \/ CreateValueOfKept

SpecDiscard == Init /\ [][NextDiscard]_vars

\* maps of several initial key capacities and load factors
DirectoryArgs ==
    { a \in [pageSize : {49}, keyTypes : {KeyTypes}, valueTypes : {<<"INT">>},
             keyCapacity : {1, 2, 3},
             loadFactor : {<<2, 257>>, <<3, 256>>, <<1, 64>>, <<4, 5>>},
             hashFunction : {"sum"}, maxResizes : MaxResizesSet] :
        \/ a.keyCapacity = 1 /\ a.loadFactor # <<4, 5>>
        \/ a.keyCapacity = 2 /\ a.loadFactor \in {<<1, 64>>, <<4, 5>>}
        \/ a.keyCapacity = 3 /\ a.loadFactor = <<1, 64>> }

NewDirectory == NewOf(DirectoryArgs)

\* insertions that fill the directory, and resets
NextDirectory ==
    \/ NewDirectory
    \/ WithKey
    \/ PutGroup
    \/ CreateValue
    \/ Clear
    \/ RestoreInitialCapacity

SpecDirectory == Init /\ [][NextDirectory]_vars

\* the other readers' lookups that a step of reader r falls into
disturbedBy(r) ==
    [q \in Readers |-> IF q # r /\ rd[q].pc = "keyed"
                       THEN [rd[q] EXCEPT !.clean = FALSE] ELSE rd[q]]

\* the single writer's loading of the map, before the readers start
Load ==
    /\ rd = noReaders
    /\ (WithKey \/ Put \/ CreateValue)

\* reader r: map.withKey(), for a key whose lookup the arena has room for
ReaderWithKey(r) ==
    /\ st = "open" /\ rd[r].pc = "idle"
    /\ rd = noReaders => last = "create"
    /\ \E key \in AllKeys :
         /\ lookupKey(map, key).exc = "none"
         /\ rd' = [disturbedBy(r) EXCEPT ![r] = [noLookup EXCEPT !.pc = "keyed", !.key = key]]
    /\ map' = withKey(map)
    /\ last' = "read"
    /\ cur' = <<>>
    /\ exc' = "none"
    /\ ret' = "none"
    /\ UNCHANGED <<st, args, hist>>

\* reader r: the put of its next key column
ReaderPut(r) ==
    /\ st = "open" /\ rd[r].pc = "keyed"
    /\ rd[r].n < Len(map.keyTypes)
    /\ \E kAddress \in Bases :
         \E p \in {Key_put(map, map.keyTypes[rd[r].n + 1], rd[r].key[rd[r].n + 1], kAddress)} :
            /\ map' = p.map
            /\ rd' = [disturbedBy(r) EXCEPT
                        ![r] = IF p.exc = "none" THEN [@ EXCEPT !.n = @ + 1]
                               ELSE [@ EXCEPT !.pc = "done", !.ret = p.exc]]
    /\ last' = "read"
    /\ UNCHANGED <<st, args, exc, ret, cur, hist>>

\* reader r: findValue()
ReaderFindValue(r) ==
    /\ st = "open" /\ rd[r].pc = "keyed"
    /\ rd[r].n = Len(map.keyTypes)
    /\ \E f \in {Key_findValue(map, "value")} :
         /\ map' = f.map
         /\ rd' = [disturbedBy(r) EXCEPT
                     ![r] = [@ EXCEPT !.pc = "done", !.ret = foundAt(f).ret,
                                      !.offset = foundAt(f).offset]]
    /\ last' = "read"
    /\ UNCHANGED <<st, args, exc, ret, cur, hist>>

\* one writer loads the map, then the readers look keys up together
NextReaders ==
    \/ New
    \/ Load
    \/ \E r \in Readers : ReaderWithKey(r)
    \/ \E r \in Readers : ReaderPut(r)
    \/ \E r \in Readers : ReaderFindValue(r)

SpecReaders == Init /\ [][NextReaders]_vars

(***************************************************************************)
(* Properties                                                              *)
(***************************************************************************)
\* the non-empty entries of the directory
entries(m) == { m.offsets[i] : i \in DOMAIN m.offsets }

\* the durable state of the map relative to the arena base: directory, counters,
\* append position and the bytes of the committed records
committed(m) ==
    [offsets |-> m.offsets, keyCapacity |-> m.keyCapacity, size |-> m.size,
     free |-> m.free, kPos |-> m.kPos - m.kStart,
     bytes |-> [o \in 0..(m.kPos - m.kStart - 1) |-> m.mem[o]]]

\* the bytes a put of value appends to the key data block
fieldBytes(t, value) ==
    CASE t = "INT" -> 4
      [] t = "BYTE" -> 1
      [] t = "STRING" -> IF value = NullStr THEN 4 ELSE 4 + 2 * Len(value)
      [] t = "BINARY" -> IF value = NullStr THEN 4 ELSE 4 + Len(value)

RECURSIVE keyDataBytes(_, _, _)
\* the bytes the first i puts of key append
keyDataBytes(types, key, i) ==
    IF i = 0 THEN 0 ELSE keyDataBytes(types, key, i - 1) + fieldBytes(types[i], key[i])

\* the length of the record built for key
recordLen(m, key) == m.keyDataOffset + keyDataBytes(m.keyTypes, key, Len(key))

\* what a lookup of key is to give: the record createValue() made for it, if any
expected(key) ==
    IF key \in DOMAIN hist.created
    THEN [ret |-> "value", offset |-> hist.created[key]]
    ELSE [ret |-> "null", offset |-> -1]

\* C1: createValue() reports isNew exactly when the key has not been created
\* before (and so does MapKey.create()), a createValue() of a key created before
\* and a later findValue() of it return a view on the record made at its first
\* creation, with any hash function.
C1_IsNewOncePerKey ==
    [][ /\ last' = "create" =>
             /\ ret' = "value"
             /\ map'.value.isNew = (cur \notin DOMAIN hist.created)
             /\ MapKey_create(map) = (cur \notin DOMAIN hist.created)
             /\ map'.value.address = map'.kStart + hist'.created[cur]
        /\ (last' = "find" /\ cur \in DOMAIN hist.created) =>
             /\ ret' = "value"
             /\ ~map'.value.isNew
             /\ map'.value.address = map'.kStart + hist.created[cur] ]_vars

\* C1 happens: with the constant hash, a findValue() has found a key that was
\* created after another one, behind it in the probe sequence
C1_Witness ==
    /\ last = "find" /\ ret = "value"
    /\ map.hashFunction = "zero"
    /\ map.value.address > map.kStart
    /\ map.size >= 2

C3_SizeCountsKeys ==
    (st = "open" /\ hist.lastReset \in {"new", "clear"})
        => size(map) = Cardinality(DOMAIN hist.created)

\* C3 happens: three distinct keys are in the map and one of them has been
\* given to createValue() again
C3_Witness ==
    /\ last = "create" /\ ~map.value.isNew
    /\ size(map) = 3

\* C4: a key created for the first time has a zeroed value block, and the
\* integer addInt() leaves in the block is the sum of the values added for the key.
C4_AccumulatorIsSum ==
    /\ (last = "create" /\ map.value.isNew) =>
          \A o \in 4..(map.keyBlockOffset - 1) : getByte(map, map.value.address + o) = 0
    /\ last = "addInt" =>
          getBytes(map, map.value.address + map.valueOffsets[1], 4)
              = intBytes(hist.sums[cur])

\* C5: withKey(), the puts and findValue() change nothing of the durable state
\* (directory slots, size, free, kPos relative to the arena base, the bytes of the
\* committed records), and a findValue() repeated on the key gives the same result.
C5_FindReadOnly ==
    [][ /\ last' \in {"withKey", "put", "find"} => committed(map') = committed(map)
        /\ (last = "find" /\ last' = "find") =>
             /\ ret' = ret
             /\ map'.value.address - map'.kStart = map.value.address - map.kStart
             /\ map'.value.isNew = map.value.isNew ]_vars

\* C5 happens: a findValue() has committed its candidate key at the arena tail
\* of a map that holds three records in a grown arena
C5_Witness ==
    /\ last = "find" /\ ret = "value"
    /\ map.size = 3 /\ map.nResizes = 1
    /\ map.key.startAddress = map.kPos
    /\ UnsafeGetInt(map, map.kPos) = map.key.len

\* the candidate record of key fits the arena tail
fits(m, key) == m.kPos + recordLen(m, key) <= m.kLimit

\* C6 as stated: after a put that failed on the resize limit, findValue()
\* succeeds for every key committed before.
C6_FindAfterFailedPut ==
    exc = "LimitOverflowException" =>
        \A k \in DOMAIN hist.created : findOf(map, k) = expected(k)

\* C6: a put that needs a reallocation after maxResizes reallocations throws
\* LimitOverflowException and changes nothing (directory slots, size, free, kPos,
\* arena base and limit, committed bytes); afterwards findValue() succeeds for each
\* committed key whose candidate record fits the arena tail, and the lookup of a
\* committed key that does not fit throws again.
C6_FailedPutKeepsMap ==
    /\ [][exc' = "LimitOverflowException" =>
             /\ last' = "put"
             /\ committed(map') = committed(map)
             /\ map'.kPos = map.kPos
             /\ map'.kStart = map.kStart
             /\ map'.kLimit = map.kLimit
             /\ map'.nResizes = map.maxResizes]_vars
    /\ [](exc = "LimitOverflowException" =>
             \A k \in DOMAIN hist.created :
                findOf(map, k) = IF fits(map, k) THEN expected(k)
                                 ELSE [ret |-> "LimitOverflowException", offset |-> -1])

\* C6 happens: a put has failed on a map one of whose committed keys still fits
\* the tail while another does not
C6_Witness ==
    /\ exc = "LimitOverflowException" /\ last = "put"
    /\ \E k \in DOMAIN hist.created : fits(map, k)
    /\ \E k \in DOMAIN hist.created : ~fits(map, k)

\* the page size and the load factor pass the constructor's first two checks
validConfiguration(a) ==
    a.pageSize > 3 /\ a.loadFactor[1] > 0 /\ a.loadFactor[1] < a.loadFactor[2]

returned(r) == [ret |-> rd[r].ret, offset |-> rd[r].offset]

C9_KeyRoundTrip ==
    (st = "open" /\ last \in {"create", "find"} /\ ret = "value") =>
        \A i \in 1..Len(map.keyTypes) :
            /\ Record_get(Record_of(map, map.value.address), map.keyTypes[i],
                          map.valueColumnCount + i - 1) = cur[i]
            /\ UnsafeGetInt(map, map.value.address + map.keyBlockOffset + 4 * (i - 1))
                  = map.keyDataOffset + keyDataBytes(map.keyTypes, cur, i)

\* C9 happens: a key with a null string has been created behind another record
C9_Witness ==
    /\ last = "create" /\ map.value.isNew
    /\ cur[2] = NullStr
    /\ map.value.address > map.kStart

\* C10: a cursor goes Idle, Iterating, Exhausted and, exhausted, has yielded
\* every live record once: size() records, one per key created.
C10_CursorYieldsLiveRecords ==
    /\ map.cursor.state \in {"Idle", "Iterating", "Exhausted"}
    /\ map.cursor.state = "Exhausted" =>
          /\ Len(hist.yielded) = size(map)
          /\ Len(hist.yielded) = Cardinality(DOMAIN hist.created)
          /\ { hist.yielded[i] : i \in 1..Len(hist.yielded) } = entries(map)
          /\ \A i, j \in 1..Len(hist.yielded) :
                hist.yielded[i] = hist.yielded[j] => i = j

\* C11: clear() leaves size() = 0, every directory slot empty, kPos = kStart and
\* free = floor(keyCapacity * loadFactor), a lookup of any key then finds
\* nothing, and the arena (base, capacity) and the directory capacity are as
\* they were before the call.
C11_ClearEmptiesInPlace ==
    [][last' = "clear" =>
         /\ size(map') = 0
         /\ \A i \in 0..(map'.keyCapacity - 1) : offsetsGet(map', i) = -1
         /\ map'.kPos = map'.kStart
         /\ map'.free = (map'.keyCapacity * map'.loadFactor[1]) \div map'.loadFactor[2]
         /\ \A k \in AllKeys : findOf(map', k) = [ret |-> "null", offset |-> -1]
         /\ map'.kStart = map.kStart /\ map'.kLimit = map.kLimit
         /\ map'.capacity = map.capacity
         /\ DOMAIN map'.mem = DOMAIN map.mem
         /\ map'.keyCapacity = map.keyCapacity /\ map'.mask = map.mask
         /\ map'.offsetsOpen]_vars

\* C11 happens: clear() has emptied a map whose arena and directory had grown
C11_Witness ==
    /\ last = "clear"
    /\ map.keyCapacity = 2 * MIN_INITIAL_CAPACITY
    /\ map.capacity = 2 * map.initialPageSize
    /\ map.mem[0] # Uninit

\* C12: restoreInitialCapacity() leaves the map as the constructor made it:
\* arena of the initial page size with kPos = kStart, directory capacity and mask
\* as computed at construction, every slot empty, free = floor(keyCapacity *
\* loadFactor), nResizes = 0, size() = 0, and a cursor that yields no record.
C12_RestoreGivesFreshMap ==
    last = "restore" =>
        /\ map.capacity = map.initialPageSize
        /\ map.kLimit - map.kStart = map.initialPageSize
        /\ map.kPos = map.kStart
        /\ map.keyCapacity = initialCapacity(map.initialKeyCapacity, map.loadFactor)
        /\ map.mask = map.keyCapacity - 1
        /\ \A i \in 0..(map.keyCapacity - 1) : offsetsGet(map, i) = -1
        /\ map.free = (map.keyCapacity * map.loadFactor[1]) \div map.loadFactor[2]
        /\ map.nResizes = 0
        /\ size(map) = 0
        /\ Cursor_hasNext(getCursor(map)).ret = "false"

\* C13: createValue / findValue through one of the three views changes only that
\* view's address and isNew flag; the other two views stay as they were.
C13_ViewsIndependent ==
    [][\A v \in Views :
          (CreateValueOn(v) \/ FindValueOn(v)) =>
              /\ \A w \in Views \ {v} : map'[w] = map[w]
              /\ ret' = "value" => DOMAIN map'[v] = {"address", "isNew"}
              /\ ret' = "null" => map'[v] = map[v]]_vars

\* C13 happens: two views are on different records, one as new and one as
\* existing, and the third view has not been positioned
C13_Witness ==
    /\ last = "create"
    /\ map.value.address # 0 /\ map.value2.address # 0
    /\ map.value.address # map.value2.address
    /\ map.value.isNew # map.value2.isNew
    /\ map.value3.address = 0


\* C14: the directory capacity changes on a lookup step exactly when
\* createValue() inserts a new key that takes the last free slot (free goes
\* from 1 to 0); the rehash then leaves exactly twice the capacity and
\* mask = capacity - 1; findValue() and createValue() of an existing key never
\* rehash
C14_RehashDoubles ==
    [][st = "open" /\ last' \notin {"new", "restore"} =>
         LET rehashed == map'.keyCapacity # map.keyCapacity
             inserted == last' = "create" /\ cur \notin DOMAIN hist.created
         IN /\ rehashed <=> (inserted /\ map.free = 1)
            /\ inserted => map'.value.isNew /\ size(map') = size(map) + 1
            /\ rehashed => /\ map'.keyCapacity = 2 * map.keyCapacity
                           /\ map'.mask = map'.keyCapacity - 1
                           /\ map'.free > 0
            /\ ~inserted => map'.free = map.free \/ last' = "clear"]_vars

\* C14 happens: a createValue() of a new key has just rehashed a directory that
\* held a record already, and a map with more than one free slot exists too
C14_Witness ==
    /\ last = "create" /\ ret = "value" /\ map.value.isNew
    /\ map.keyCapacity = 2 * initialCapacity(args.keyCapacity, args.loadFactor)
    /\ size(map) >= 2


\* C15: nResizes never exceeds maxResizes; a put raises LimitOverflowException
\* only with nResizes = maxResizes and then leaves the map as it was; a put that
\* succeeds with nResizes = maxResizes fitted into the arena it found (no
\* growth); every growth counts one resize; restoreInitialCapacity() starts
\* the count again at 0
C15_ResizesBounded ==
    /\ [](st = "open" => map.nResizes <= map.maxResizes)
    /\ [][st = "open" /\ last' = "put" =>
            /\ exc' \in {"none", "LimitOverflowException"}
            /\ exc' = "LimitOverflowException" =>
                  map.nResizes = map.maxResizes /\ map' = map
            /\ map.nResizes = map.maxResizes /\ exc' = "none" =>
                  /\ map'.key.appendAddress <= map.kLimit
                  /\ map'.capacity = map.capacity /\ map'.kLimit = map.kLimit
                  /\ map'.kStart = map.kStart /\ map'.nResizes = map.nResizes
            /\ map'.capacity # map.capacity => map'.nResizes = map.nResizes + 1]_vars
    /\ [][last' = "restore" => map'.nResizes = 0]_vars

\* C15 happens: a put has been refused at the resize limit
C15_Witness ==
    /\ last = "put" /\ exc = "LimitOverflowException"
    /\ map.nResizes = map.maxResizes /\ map.maxResizes > 0
    /\ map.capacity > map.initialPageSize


RECURSIVE emptyReachedFrom(_, _, _)
\* walking the directory of m from slot index on, for at most steps slots, an
\* empty slot comes before a record equal to the committed key
emptyReachedFrom(m, index, steps) ==
    IF steps = 0 THEN FALSE
    ELSE IF offsetsGet(m, index) = -1 THEN TRUE
    ELSE IF eq(m, offsetsGet(m, index)) THEN FALSE
    ELSE emptyReachedFrom(m, andMask(index + 1, m.mask), steps - 1)

\* the probe sequence of the committed key of m, from its home bucket on,
\* comes to an empty slot before it comes to a record equal to the key
emptyReached(m) == emptyReachedFrom(m, keyIndex(m), m.keyCapacity)

\* C16: findValue() returns null exactly when the probe sequence of the key
\* comes to an empty slot (at the home bucket or behind colliding records),
\* which is exactly when the key has not been inserted; it then writes no
\* directory slot, leaves size, free, kPos and the views as they were, and
\* MapKey.notFound() is true in exactly that case
C16_FindOnlyNeverCreates ==
    [][st = "open" /\ last' = "find" =>
         /\ \E empty \in {emptyReached(Key_commit(map))} :
               /\ ret' = "null" <=> empty
               /\ MapKey_notFound(map) <=> empty
         /\ ret' = "null" <=> cur \notin DOMAIN hist.created
         /\ ret' = "null" =>
              /\ map'.offsets = map.offsets
              /\ size(map') = size(map)
              /\ map'.free = map.free
              /\ map'.kPos = map.kPos
              /\ map'.keyCapacity = map.keyCapacity
              /\ \A v \in Views : map'[v] = map[v]
         /\ ret' \in {"null", "value"}]_vars

\* C16 happens: findValue() has returned null after probing past a record in
\* the home bucket of its key
C16_Witness ==
    /\ last = "find" /\ ret = "null"
    /\ size(map) >= 1
    /\ offsetsGet(map, keyIndex(map)) # -1
    /\ emptyReached(map)


\* the value-column types the constructor assigns a width to
SupportedValueTypes ==
    { "BYTE", "BOOLEAN", "GEOBYTE", "SHORT", "CHAR", "GEOSHORT", "INT", "FLOAT",
      "SYMBOL", "GEOINT", "LONG", "DOUBLE", "DATE", "TIMESTAMP", "GEOLONG", "LONG256" }

\* C17: a constructor call that passes its assertions on page size and load
\* factor and has a value column outside the supported fixed-width types
\* raises CairoException with the arena and the directory released (kStart = 0,
\* no arena bytes, no directory) and no record written; CairoException comes
\* out of the constructor in this case only; and no operation ever runs on
\* the failed construction
C17_UnsupportedTypeFailsConstruction ==
    /\ [](last = "new" =>
            LET passes == args.pageSize > 3 /\ 0 < args.loadFactor[1]
                            /\ args.loadFactor[1] < args.loadFactor[2]
                unsupported == \E i \in DOMAIN args.valueTypes :
                                   args.valueTypes[i] \notin SupportedValueTypes
            IN /\ (passes /\ unsupported) <=> exc = "CairoException"
               /\ exc = "CairoException" =>
                     /\ st = "failed"
                     /\ map.kStart = 0 /\ map.mem = emptyMem
                     /\ ~map.offsetsOpen /\ DOMAIN map.offsets = {}
                     /\ size(map) = 0)
    /\ [][st # "failed"]_vars

\* C17 happens: a constructor call with a STRING value column has raised
\* CairoException
C17_Witness ==
    /\ last = "new" /\ st = "failed" /\ exc = "CairoException"
    /\ args.valueTypes = <<"INT", "STRING">>
    /\ args.pageSize > 3


\* C18: a put of a string or binary whose encoded size is past
\* Integer.MAX_VALUE fails with an exception of the map, without a size that
\* wrapped having let a write go outside the arena, and leaves the directory
\* and the record count as they were
C18_TooLargeFails ==
    [][last' = "putLarge" =>
         /\ st' = "open"
         /\ exc' \in {"CairoException", "LimitOverflowException"}
         /\ ~map'.overrun
         /\ map'.offsets = map.offsets
         /\ size(map') = size(map)
         /\ map'.kPos = map.kPos]_vars

\* what puts of too-large values keep: they never return normally, so the key
\* never reaches createValue(), and a too-large binary is refused before
\* anything is written
C18_TooLargeNeverReturns ==
    [][last' = "putLarge" =>
         /\ exc' # "none"
         /\ cur' = cur
         /\ map'.offsets = map.offsets /\ size(map') = size(map)
         /\ map.keyTypes[Len(cur) + 1] = "BINARY" =>
               map' = map /\ exc' = "CairoException"]_vars

\* C18 happens: a too-large string has been put where the arena had room for
\* its length field and the put has come back with CairoException
C18_Witness ==
    /\ last = "putLarge" /\ exc = "CairoException"
    /\ map.overrun
    /\ size(map) >= 1


\* C19: in every state of an open map kStart <= kPos <= kLimit, and after a
\* put that returned normally the builder's appendAddress is at most kLimit
C19_ArenaInvariant ==
    st = "open" =>
      /\ map.kStart <= map.kPos /\ map.kPos <= map.kLimit
      /\ (last = "put" /\ exc = "none") => map.key.appendAddress <= map.kLimit


\* p is v rounded up to the next power of two
isCeilPow2(p, v) ==
    /\ \E k \in 0..30 : p = 2 ^ k
    /\ p >= v
    /\ p = 1 \/ p \div 2 < v

\* C20 as stated: a put that does not fit grows the arena to
\* max(2 * capacity, required size rounded up to the next power of two)
C20_GrowthToMax ==
    [][st = "open" /\ last' = "put" /\ exc' = "none"
         /\ map'.nResizes = map.nResizes + 1 =>
           LET t == map.keyTypes[Len(cur')]
               bytes == fieldBytes(t, cur'[Len(cur')])
               required == map.key.appendAddress + bytes - map.kStart
               twice == 2 * (map.kLimit - map.kStart)
               rounded == ceilPow2(required)
           IN map'.capacity = IF twice >= rounded THEN twice ELSE rounded]_vars

\* C20: a put of size bytes grows the arena exactly when
\* appendAddress + size > kLimit; the new capacity is twice the capacity when
\* that is at least the required size (appendAddress + size - kStart), and
\* otherwise the required size rounded up to the next power of two; after
\* the growth the field lies inside the arena, and no put makes the capacity
\* smaller
C20_GrowthSize ==
    [][st = "open" /\ last' = "put" /\ exc' = "none" =>
         LET t == map.keyTypes[Len(cur')]
             bytes == fieldBytes(t, cur'[Len(cur')])
             required == map.key.appendAddress + bytes - map.kStart
             twice == 2 * (map.kLimit - map.kStart)
             grown == map'.nResizes = map.nResizes + 1
         IN /\ grown <=> map.key.appendAddress + bytes > map.kLimit
            /\ grown =>
                 /\ IF twice >= required THEN map'.capacity = twice
                    ELSE isCeilPow2(map'.capacity, required)
                 /\ map'.capacity >= required
                 /\ map'.capacity > map.capacity
            /\ ~grown => map'.capacity = map.capacity /\ map'.nResizes = map.nResizes
            /\ map'.kLimit - map'.kStart = map'.capacity
            /\ map'.key.appendAddress - map'.key.startAddress
                  = map.key.appendAddress - map.key.startAddress + bytes
            /\ map'.key.appendAddress <= map'.kLimit]_vars

\* C20 happens: a 9-byte arena has grown twice, first to the required size
\* rounded up (32, twice the capacity being too small) and now, by a put, to
\* twice its capacity
C20_Witness ==
    /\ last = "put" /\ exc = "none"
    /\ map.initialPageSize = 9 /\ map.nResizes = 2 /\ map.capacity = 64
    /\ map.key.appendAddress > map.kStart + 32


\* C21: on a put that reallocates the arena, the arena the put goes on with
\* (at its new base) has kPos and the builder's startAddress, appendAddress and
\* nextColOffset at the arena offsets they had, every byte of the old arena
\* (the committed records and the key under construction) as it was, and the
\* directory, size and free unchanged; the put then only appends its field
\* and its column offset
C21_ResizeKeepsOffsets ==
    [][st = "open" /\ last' = "put" /\ exc' = "none"
         /\ map'.nResizes = map.nResizes + 1 =>
           LET bytes == fieldBytes(map.keyTypes[Len(cur')], cur'[Len(cur')])
               d == map'.kStart - map.kStart
           IN /\ map'.kPos - map'.kStart = map.kPos - map.kStart
              /\ map'.key.startAddress = map.key.startAddress + d
              /\ map'.key.appendAddress = map.key.appendAddress + d + bytes
              /\ map'.key.nextColOffset = map.key.nextColOffset + d + 4
              /\ map'.offsets = map.offsets
              /\ size(map') = size(map) /\ map'.free = map.free
              /\ map'.keyCapacity = map.keyCapacity /\ map'.mask = map.mask
              /\ \A o \in 0..(map.capacity - 1) :
                    \/ map'.mem[o] = map.mem[o]
                    \/ /\ o >= map.key.appendAddress - map.kStart
                       /\ o < map.key.appendAddress - map.kStart + bytes
                    \/ /\ o >= map.key.nextColOffset - map.kStart
                       /\ o < map.key.nextColOffset - map.kStart + 4
              /\ \A k \in DOMAIN hist.created : findOf(map', k) = expected(k)]_vars

\* C21 happens: the put of the second column has moved an arena that holds a
\* committed record and the first column of the key under construction
C21_Witness ==
    /\ last = "put" /\ exc = "none" /\ Len(cur) = 2
    /\ map.nResizes = 1 /\ map.kStart = 2 * Base0
    /\ size(map) >= 1
    /\ map.key.appendAddress - map.kStart > map.initialPageSize
    /\ map.key.startAddress - map.kStart > 0


\* C22: in every state of an open map the directory capacity is a power of
\* two, mask = capacity - 1, and the directory holds exactly capacity slots,
\* each of them -1 or an offset >= 0
C22_DirectoryShape ==
    st = "open" =>
      /\ \E k \in 0..30 : map.keyCapacity = 2 ^ k
      /\ map.mask = map.keyCapacity - 1
      /\ map.offsetsOpen /\ map.offsetsPos = map.keyCapacity
      /\ DOMAIN map.offsets \subseteq 0..(map.keyCapacity - 1)
      /\ \A i \in 0..(map.keyCapacity - 1) :
            offsetsGet(map, i) = -1 \/ offsetsGet(map, i) >= 0

\* C22 happens: a directory that has been rehashed twice holds two records
C22_Witness ==
    /\ st = "open" /\ last = "create"
    /\ map.keyCapacity = 4 * MIN_INITIAL_CAPACITY
    /\ args.keyCapacity = 1
    /\ Cardinality(DOMAIN map.offsets) = 2


\* the number of occupied directory slots
occupied(m) == Cardinality(DOMAIN m.offsets)

\* C23: in every state of an open map the number of occupied directory slots
\* is at most capacity * loadFactor, and so less than the capacity
C23_OccupancyBound ==
    st = "open" =>
      /\ occupied(map) * map.loadFactor[2] <= map.keyCapacity * map.loadFactor[1]
      /\ occupied(map) < map.keyCapacity

\* C24: in every state of an open map
\* free = floor(capacity * loadFactor) - (number of occupied slots)
C24_FreeExact ==
    st = "open" =>
      map.free = (map.keyCapacity * map.loadFactor[1]) \div map.loadFactor[2]
                   - occupied(map)


\* C25: right after construction and right after restoreInitialCapacity() the
\* directory capacity is 128 when floor(initialKeyCapacity / loadFactor) < 128
\* and otherwise the smallest power of two that is at least that quotient,
\* free is floor(capacity * loadFactor) and every slot is -1; an initial key
\* capacity of 2 with load factor 0.8 gives 128
C25_InitialDirectory ==
    (st = "open" /\ last \in {"new", "restore"}) =>
      LET quotient == (args.keyCapacity * args.loadFactor[2]) \div args.loadFactor[1]
      IN /\ IF quotient < 128 THEN map.keyCapacity = 128
            ELSE isCeilPow2(map.keyCapacity, quotient)
         /\ map.free = (map.keyCapacity * args.loadFactor[1]) \div args.loadFactor[2]
         /\ \A i \in 0..(map.keyCapacity - 1) : offsetsGet(map, i) = -1
         /\ (args.keyCapacity = 2 /\ args.loadFactor = <<4, 5>>) =>
               map.keyCapacity = 128 /\ map.free = 102

\* C25 happens: restoreInitialCapacity() has brought a directory that had been
\* rehashed back to its initial capacity
C25_Witness ==
    /\ st = "open" /\ last = "restore"
    /\ args.loadFactor = <<3, 256>> /\ hist.nCreates >= 2
    /\ map.keyCapacity = MIN_INITIAL_CAPACITY /\ map.free = 1


\* C26: createValue() of a key that exists leaves kPos, the directory, size and
\* free as they were, so the next withKey() starts where the candidate
\* started; createValue() of a new key advances kPos by the length of that
\* record, which is the length in its header, and nothing else advances kPos
C26_UndoOnDuplicate ==
    [][st = "open" /\ st' = "open" /\ last' \notin {"new", "clear", "restore"} =>
         /\ (last' = "create" /\ cur \in DOMAIN hist.created) =>
               /\ ~map'.value.isNew
               /\ map'.kPos = map.kPos /\ map'.kStart = map.kStart
               /\ map'.offsets = map.offsets
               /\ size(map') = size(map) /\ map'.free = map.free
               /\ withKey(map').key.startAddress = map.kPos
         /\ (last' = "create" /\ cur \notin DOMAIN hist.created) =>
               /\ map'.value.isNew
               /\ map'.kPos = map.kPos + recordLen(map, cur)
               /\ UnsafeGetInt(map', map.kPos) = recordLen(map, cur)
               /\ size(map') = size(map) + 1
         /\ last' # "create" => map'.kPos - map'.kStart = map.kPos - map.kStart]_vars

\* C26 happens: createValue() has found the key of a candidate built at the
\* arena tail in another record, and the candidate's bytes lie beyond kPos
C26_Witness ==
    /\ last = "create" /\ ret = "value" /\ ~map.value.isNew
    /\ size(map) >= 2
    /\ map.key.startAddress = map.kPos
    /\ map.key.appendAddress > map.kPos
    /\ map.value.address < map.kPos
    /\ UnsafeGetInt(map, map.kPos) = map.key.len

RECURSIVE keyData(_, _, _)
\* the key data block the first i puts of key write
keyData(types, key, i) ==
    IF i = 0 THEN <<>>
    ELSE keyData(types, key, i - 1)
           \o (CASE types[i] = "INT" -> intBytes(key[i])
                 [] types[i] = "STRING" ->
                      IF key[i] = NullStr THEN intBytes(NULL_LEN)
                      ELSE intBytes(Len(key[i])) \o strBytes(key[i]))

\* the bucket the hash function gives for a key data block under mask
homeOf(m, bs) ==
    andMask(CASE m.hashFunction = "zero" -> 0
              [] m.hashFunction = "sum" -> sumBytes(bs)
              [] m.hashFunction = "neg" -> 0 - sumBytes(bs) - 1
              [] m.hashFunction = "last" -> -1,
            m.mask)

\* the slot holding offset o is reached from bucket home over occupied slots
probedFrom(m, home, o) ==
    \E i \in DOMAIN m.offsets :
        /\ m.offsets[i] = o
        /\ \A j \in 0..(((i - home) % m.keyCapacity) - 1) :
              andMask(home + j, m.mask) \in DOMAIN m.offsets

\* the bucket rehash() computes for the record at offset o
rehashBucket(m, o) ==
    andMask(hash(m, m.kStart + o + m.keyDataOffset,
                 UnsafeGetInt(m, m.kStart + o) - m.keyDataOffset), m.mask)

\* C27: the home bucket of every record is the hash of its key data block
\* alone, masked: the bytes at record start + keyDataOffset of length record
\* length - keyDataOffset are the bytes the puts of the key wrote, insertion
\* and rehash() hash that range, so each record is found by probing from that
\* bucket before and after a rehash, and writing the value block of a record
\* changes the bucket of no record
C27_BucketFromKeyData ==
    /\ [](st = "open" =>
            \A k \in DOMAIN hist.created :
               LET o == hist.created[k]
                   bs == keyData(map.keyTypes, k, Len(k))
               IN /\ UnsafeGetInt(map, map.kStart + o) = map.keyDataOffset + Len(bs)
                  /\ getBytes(map, map.kStart + o + map.keyDataOffset, Len(bs)) = bs
                  /\ rehashBucket(map, o) = homeOf(map, bs)
                  /\ probedFrom(map, homeOf(map, bs), o))
    /\ [](st = "open" /\ built =>
            keyIndex(Key_commit(map)) = homeOf(map, keyData(map.keyTypes, cur, Len(cur))))
    /\ [][last' = "addInt" =>
            \A o \in entries(map) : rehashBucket(map', o) = rehashBucket(map, o)]_vars

\* C27 happens: two records whose value blocks were written have been rehashed
\* into different home buckets of the doubled directory
C27_Witness ==
    /\ st = "open" /\ last = "create" /\ map.value.isNew
    /\ map.keyCapacity > args.keyCapacity
    /\ hist.nAdds >= 1
    /\ \E o1, o2 \in entries(map) :
          rehashBucket(map, o1) # rehashBucket(map, o2)

\* the address behind the last byte eq(keyWriter, offset) reads of the
\* candidate once the lengths are equal
eqEnd(m) ==
    LET b == m.key.startAddress + m.keyDataOffset
        lim == m.key.startAddress + m.key.len
    IN IF (lim - b) % 8 = 0 THEN eqLongEnd(b, lim)
       ELSE IF (lim - b) % 4 = 0 THEN eqIntEnd(b, lim)
       ELSE eqMixedEnd(b, lim)

\* C28: for a built key and every stored record, eq() is true exactly when the
\* two length headers are equal and the two key data blocks hold the same
\* bytes; for records of equal length eqMixed() agrees with the byte-by-byte
\* comparison, eqLong() does when the data block is a multiple of 8 bytes and
\* eqInt() when it is a multiple of 4, and the comparison eq() chooses reads
\* up to the end of the data block and no further
C28_EqIsByteEquality ==
    (st = "open" /\ built) =>
        LET m == Key_commit(map)
            b == m.key.startAddress + m.keyDataOffset
            lim == m.key.startAddress + m.key.len
            d == lim - b
        IN \A o \in entries(m) :
              LET a == m.kStart + o + m.keyDataOffset
                  sameLen == UnsafeGetInt(m, m.kStart + o) = m.key.len
                  sameData == \A i \in 0..(d - 1) : 
                                 getByte(m, a + i) = getByte(m, b + i)
              IN /\ eq(m, o) = (IF sameLen THEN sameData ELSE FALSE)
                 /\ sameLen =>
                       /\ eqMixed(m, a, b, lim) = sameData
                       /\ eqBytes(m, a, b, lim) = sameData
                       /\ d % 8 = 0 => eqLong(m, a, b, lim) = sameData
                       /\ d % 4 = 0 => eqInt(m, a, b, lim) = sameData
                       /\ eqEnd(m) = lim
                       /\ a + (eqEnd(m) - b) = m.kStart + o + UnsafeGetInt(m, m.kStart + o)

\* C28 happens: a candidate of 10 key data bytes is compared with two stored
\* records of its length, one equal and one that differs in its last char only
C28_Witness ==
    /\ st = "open" /\ built /\ last = "put"
    /\ Key_commit(map).key.len - map.keyDataOffset = 10
    /\ \E o1, o2 \in entries(map) :
          /\ eq(Key_commit(map), o1)
          /\ ~eq(Key_commit(map), o2)
          /\ UnsafeGetInt(map, map.kStart + o2) = Key_commit(map).key.len
          /\ getBytes(map, map.kStart + o2 + map.keyDataOffset, 8)
               = getBytes(map, map.key.startAddress + map.keyDataOffset, 8)

arena(m) == <<m.kStart, m.kLimit, m.capacity, m.nResizes>>

\* C30 as stated, on a map into which nothing has been inserted, so that all
\* its lookups were find-only: after findValue() the arena is the one the
\* constructor allocated, with its base, its limit and no reallocation
C30_FindOnlyKeepsArena ==
    (st = "open" /\ last = "find" /\ hist.nCreates = 0) =>
        arena(map) = <<Base0, Base0 + args.pageSize, args.pageSize, 0>>

\* C30: withKey() and findValue() never reallocate the arena; a put
\* reallocates it exactly when its field does not fit between appendAddress
\* and kLimit, whether the lookup ends in findValue() or in createValue(): the
\* reallocation is counted, the arena grows and the field fits afterwards, or
\* the put throws with maxResizes reallocations done and the arena as it was;
\* no step of withKey(), put or findValue() changes the directory, size,
\* free, the offset of kPos or a byte of a committed record
C30_FindReallocatesOnlyToFit ==
    [][st = "open" /\ st' = "open" /\ last' \in {"withKey", "put", "find"} =>
         /\ committed(map') = committed(map)
         /\ last' \in {"withKey", "find"} => arena(map') = arena(map)
         /\ (last' = "put" /\ exc' # "none") =>
               /\ arena(map') = arena(map)
               /\ map.nResizes = map.maxResizes
         /\ (last' = "put" /\ exc' = "none") =>
               LET bytes == fieldBytes(map.keyTypes[Len(cur')], cur'[Len(cur')])
               IN /\ map'.key.appendAddress - map'.kStart
                        = map.key.appendAddress - map.kStart + bytes
                  /\ map'.key.appendAddress <= map'.kLimit
                  /\ IF bytes <= map.kLimit - map.key.appendAddress
                     THEN arena(map') = arena(map)
                     ELSE /\ map'.nResizes = map.nResizes + 1
                          /\ map'.kLimit - map'.kStart > map.kLimit - map.kStart
                          /\ map'.capacity = map'.kLimit - map'.kStart]_vars

\* C30 happens: on a map into which nothing was inserted a find-only lookup
\* has returned null from a reallocated arena
C30_Witness ==
    /\ st = "open" /\ last = "find" /\ ret = "null"
    /\ hist.nCreates = 0
    /\ map.nResizes >= 1
    /\ map.kLimit - map.kStart > args.pageSize
    /\ size(map) = 0

\* the slots of the cyclic probe path from bucket h up to, not including, s
probePath(m, h, s) ==
    { andMask(h + j, m.mask) : j \in 0..(((s - h) % m.keyCapacity) - 1) }

\* C31: for every record stored at slot s, with home bucket h = hash(key
\* data) & mask, every slot of the probe path h, (h + 1) & mask, ... before s
\* is occupied, and none of them holds the record, so that probing from h
\* comes to s before it comes to an empty slot; after insertion and after
\* rehash alike
C31_ProbeChain ==
    st = "open" =>
        \A s \in DOMAIN map.offsets :
            LET h == rehashBucket(map, map.offsets[s])
            IN /\ h \in 0..map.mask
               /\ s \in 0..map.mask
               /\ \A p \in probePath(map, h, s) :
                     /\ p \in DOMAIN map.offsets
                     /\ map.offsets[p] # map.offsets[s]

\* C31 happens: three colliding records lie on a probe path that goes round
\* the end of a directory that has been rehashed
C31_Witness ==
    /\ st = "open" /\ map.keyCapacity > 128
    /\ {map.mask, 0, 1} \subseteq DOMAIN map.offsets
    /\ \A s \in DOMAIN map.offsets : rehashBucket(map, map.offsets[s]) = map.mask

\* the key data block of the record at offset o, as it is in memory
dataBlock(m, o) ==
    getBytes(m, m.kStart + o + m.keyDataOffset,
             UnsafeGetInt(m, m.kStart + o) - m.keyDataOffset)

\* C32: no two occupied slots hold the same arena offset and no two records of
\* the directory have the same key data block; the records of the directory
\* are those of the keys created, one for each
C32_Uniqueness ==
    st = "open" =>
        /\ \A s1, s2 \in DOMAIN map.offsets :
              s1 # s2 =>
                 /\ map.offsets[s1] # map.offsets[s2]
                 /\ dataBlock(map, map.offsets[s1]) # dataBlock(map, map.offsets[s2])
        /\ entries(map) = { hist.created[k] : k \in DOMAIN hist.created }
        /\ \A k1, k2 \in DOMAIN hist.created :
              k1 # k2 => hist.created[k1] # hist.created[k2]
        /\ \A k \in DOMAIN hist.created :
              dataBlock(map, hist.created[k]) = keyData(map.keyTypes, k, Len(k))

\* C32 happens: createValue() of a key that is in the map, behind another
\* record of its length on the probe path, has returned the record and left
\* the directory as it was
C32_Witness ==
    /\ st = "open" /\ last = "create" /\ ~map.value.isNew
    /\ Cardinality(DOMAIN map.offsets) >= 2
    /\ map.key.startAddress = map.kPos
    /\ \E s \in DOMAIN map.offsets :
          /\ map.offsets[s] # map.value.address - map.kStart
          /\ s \in probePath(map, rehashBucket(map, map.value.address - map.kStart),
                             CHOOSE t \in DOMAIN map.offsets :
                                 map.offsets[t] = map.value.address - map.kStart)
          /\ UnsafeGetInt(map, map.kStart + map.offsets[s])
               = UnsafeGetInt(map, map.value.address)

\* C33: the directory always has an empty slot, and no probe goes round it
\* for ever
C33_EmptySlotRemains ==
    /\ st # "spinning"
    /\ st = "open" => occupied(map) < map.keyCapacity

\* C34: size() is the number of non-empty directory slots, whatever
\* lookups, rehashes, arena growth, clear() and restoreInitialCapacity() came
\* before
C34_SizeIsOccupancy ==
    st = "open" => size(map) = occupied(map)

RECURSIVE tiledFrom(_, _, _)
\* n records of the directory lie one behind the other from offset pos to
\* kPos - kStart, each as long as its length header says
tiledFrom(m, pos, n) ==
    IF n = 0 THEN pos = m.kPos - m.kStart
    ELSE /\ pos \in entries(m)
         /\ UnsafeGetInt(m, m.kStart + pos) > 0
         /\ tiledFrom(m, pos + UnsafeGetInt(m, m.kStart + pos), n - 1)

RECURSIVE lengthSum(_, _)
\* the sum of the length headers of the records at the offsets os
lengthSum(m, os) ==
    IF os = {} THEN 0
    ELSE LET o == minOf(os)
         IN UnsafeGetInt(m, m.kStart + o) + lengthSum(m, os \ {o})

\* C35: the records of the directory tile the arena from offset 0 to
\* kPos - kStart with no gap and no overlap, the sum of their length headers
\* is kPos - kStart, and each new record starts where kPos was, so that the
\* records lie in insertion order; lookups of keys that are in the map and
\* findValue() leave the tiling as it is
C35_ArenaTiling ==
    /\ [](st = "open" =>
            /\ tiledFrom(map, 0, Cardinality(entries(map)))
            /\ lengthSum(map, entries(map)) = map.kPos - map.kStart)
    /\ [][(st = "open" /\ st' = "open" /\ last' \in {"create", "find"}) =>
            IF last' = "create" /\ map'.value.isNew
            THEN /\ entries(map') = entries(map) \cup {map.kPos - map.kStart}
                 /\ map.kPos - map.kStart \notin entries(map)
            ELSE /\ entries(map') = entries(map)
                 /\ map'.kPos - map'.kStart = map.kPos - map.kStart]_vars

\* C35 happens: two records tile a reallocated arena, and a findValue() that
\* found nothing has left its candidate beyond kPos
C35_Witness ==
    /\ st = "open" /\ last = "find" /\ ret = "null"
    /\ Cardinality(entries(map)) = 2
    /\ map.nResizes >= 1
    /\ map.key.startAddress = map.kPos
    /\ map.key.appendAddress > map.kPos

\* the bytes of the records of the directory, as they are in memory
liveBytes(m) ==
    UNION { { getByte(m, m.kStart + o + j) :
                j \in 0..(UnsafeGetInt(m, m.kStart + o) - 1) } : o \in entries(m) }

\* C36: withKey() on a partly built key sets the builder back to kPos and
\* leaves the directory, size, free and kPos as they were, and no byte of a
\* key that was given up is in a record of the directory
C36_DiscardedKeyLeavesNoTrace ==
    /\ [][(st = "open" /\ last = "put" /\ last' = "withKey") =>
            /\ map'.key.startAddress = map'.kPos
            /\ map'.key.appendAddress = map'.kPos + map'.keyDataOffset
            /\ map'.key.nextColOffset = map'.kPos + map'.keyBlockOffset
            /\ map'.offsets = map.offsets
            /\ size(map') = size(map) /\ map'.free = map.free
            /\ map'.kPos = map.kPos /\ map'.kStart = map.kStart]_vars
    /\ [](st = "open" => DiscardedStr[1] \notin liveBytes(map))

\* C37: a view that has been positioned stays on the value block of its
\* record: its address is the arena base plus the offset of a record of the
\* directory, and that offset changes only when a lookup positions the view
\* again, whatever keys are built and inserted in between
C37_ViewStaysOnRecord ==
    /\ [](st = "open" =>
            \A v \in Views :
                map[v].address # 0 => map[v].address - map.kStart \in entries(map))
    /\ [][(st = "open" /\ st' = "open"
             /\ last' \in {"withKey", "put", "create", "find"}) =>
            \A v \in Views :
                map[v].address # 0 =>
                   \/ map'[v].address - map'.kStart = map[v].address - map.kStart
                   \/ last' \in {"create", "find"} /\ map'[v] # map[v]]_vars

\* the map m as it is with hash function h: the same arena, and the
\* directory filled by rehash's loop under h and the mask of m
withHash(m, h) ==
    LET m1 == [m EXCEPT !.hashFunction = h]
    IN [m1 EXCEPT !.offsets = rehashFrom(m1, DOMAIN m.offsets, m.mask,
                                        zeroed(m.keyCapacity))]

\* C38: what a lookup returns is a function of the keys created before it and
\* of no hash function: createValue() gives a new record exactly for a key
\* not created before, findValue() gives null exactly for such a key, size()
\* is the number of keys created and the records hold exactly their key data;
\* and the key that has been built is found or not found alike in the map
\* with each of the other hash functions
C38_HashIndependence ==
    /\ [](st = "open" =>
            /\ size(map) = Cardinality(DOMAIN hist.created)
            /\ { dataBlock(map, o) : o \in entries(map) }
                 = { keyData(map.keyTypes, k, Len(k)) : k \in DOMAIN hist.created })
    /\ [](st = "open" /\ built =>
            \A h \in {"zero", "last", "sum"} :
                /\ Key_findValue(withHash(map, h), "value").ret
                     = Key_findValue(map, "value").ret
                /\ Key_findValue(map, "value").ret
                     = IF cur \in DOMAIN hist.created THEN "value" ELSE "null")
    /\ [][(st = "open" /\ st' = "open") =>
            /\ last' = "create" =>
                  /\ ret' = "value"
                  /\ map'.value.isNew = (cur \notin DOMAIN hist.created)
            /\ last' = "find" =>
                  ret' = IF cur \in DOMAIN hist.created THEN "value" ELSE "null"]_vars

\* C38 happens: in a map whose hash function is constant findValue() has
\* found the last of three colliding keys, which a byte sum puts in three
\* different buckets
C38_Witness ==
    /\ st = "open" /\ last = "find" /\ ret = "value"
    /\ args.hashFunction = "zero"
    /\ Cardinality(entries(map)) = 3
    /\ \A o \in entries(map) : o <= map.value.address - map.kStart
    /\ Cardinality({ rehashBucket(withHash(map, "sum"), o) : o \in entries(map) }) = 3

====
